---- MODULE Spec2Model ----
(***************************************************************************)
(* Model of the arXiv crawler's announcement-date resolver                 *)
(* (ArxivScraper.process_papers), of its SQLite store (PaperDatabase) and  *)
(* of its three fetch operations (fetch_all, fetch_all_api, fetch_update)  *)
(* with their page requests and parsers.                                   *)
(*                                                                         *)
(* Encodings                                                               *)
(*   datetime   an integer d * TodPerDay + tod: calendar day d (day 0 is a *)
(*              Monday) and a time of day tod, tod = 0 being midnight.     *)
(*   DATE text  the calendar day d: "%Y-%m-%d" of a datetime keeps the day *)
(*              and drops the time of day; the zero-padded text compares   *)
(*              as the day number does.                                    *)
(*   update_time  the wall clock in ticks, TicksPerSecond ticks a second.  *)
(*   text       a sequence of one-character strings.                       *)
(*   None       the integer -1.                                            *)
(***************************************************************************)
EXTENDS Integers, Sequences, FiniteSets, TLC

VARIABLES papers, first_announced_date, db, now, last

\* a fetch in progress: the source's result list, the operation and where it
\* stands, self.total, the page requests issued and their retry loops, the
\* pages the gathered wrappers returned, the requested window, the exception
\* that ended the fetch
VARIABLES server, mode, pc, total, issued, reqs, got, window, raised

fetchVars == <<server, mode, pc, total, issued, reqs, got, window, raised>>

\* the bot: ChatManager.chat_config and ChatManager.chat_papers, the threads
\* the message handler and the scheduled job have started, and the call of
\* get_daily_llm_papers in progress (its arguments and what it returned)
VARIABLES chat_config, chat_papers, threads, call

botVars == <<chat_config, chat_papers, threads, call>>

vars == <<papers, first_announced_date, db, now, last, fetchVars, botVars>>

(***************************************************************************)
(* Bounds                                                                  *)
(***************************************************************************)
MaxBatch == 2          \* longest batch handed to add_papers directly
MaxClock == 4          \* the wall clock stops at this tick
MaxPapers == 3         \* longest scraper record list
MaxDay == 8            \* submission days 0..MaxDay (two weekends)
MaxCand == 5           \* longest candidate list of count_new_papers
MaxRuleDay == 55       \* next_arxiv_update_day is applied to days 0..MaxRuleDay
TodPerDay == 2         \* times of day distinguished within one day
TicksPerSecond == 2    \* clock ticks within one second
step == 2              \* self.step, the page size
MaxResults == 5        \* most entries the source holds for one query
MaxYears == 2          \* calendar years the constructor's dates are drawn from
MaxGroupLen == 2       \* most keywords in one optional group
MaxGroups == 2         \* most optional groups in one configuration
MaxStored == 3         \* rows the store of the bot holds at the start

None == 0 - 1

\* range(start, stop, step) of offsets
OffsetRange(start, stop) == {o \in start..(stop - 1) : (o - start) % step = 0}

\* the offsets a fetch can ask for
Starts == OffsetRange(0, MaxResults + step)

\* a page request that has not been issued
ReqIdle == [error |-> 0, attempts |-> 0, state |-> "idle", handled |-> FALSE]

\* ChatConfig(chat_id, required_keywords, optional_keywords): translate keeps
\* its default
ChatConfig(chat_id, required_keywords, optional_keywords) ==
    [chat_id |-> chat_id, translate |-> TRUE,
     required_keywords |-> required_keywords, optional_keywords |-> optional_keywords]

K_agent == <<"a", "g", "e", "n", "t">>
K_research == <<"r", "e", "s", "e", "a", "r", "c", "h">>
K_browse == <<"b", "r", "o", "w", "s", "e">>

\* load_chat_configs: the one configuration ChatManager starts with
DefaultConfig == ChatConfig("default", <<K_agent>>, <<<<K_research, K_browse>>>>)

\* ChatPapers(): no paper, never updated, the cursor on the first paper
ChatPapers == [papers |-> <<>>, last_update |-> None, current_index |-> 0]

\* get_daily_llm_papers is not running
CallIdle == [state |-> "none"]

\* the bot after construction: the default configuration, no thread started
BotIdle ==
    /\ chat_config = [k \in {"default"} |-> DefaultConfig]
    /\ chat_papers = [k \in {"default"} |-> ChatPapers]
    /\ threads = <<>>
    /\ call = CallIdle

\* no fetch has been started
FetchIdle ==
    /\ server = [results |-> <<>>, header |-> "ok"]
    /\ mode = "none"
    /\ pc = "idle"
    /\ total = None
    /\ issued = <<>>
    /\ reqs = [s \in Starts |-> ReqIdle]
    /\ got = [s \in Starts |-> <<>>]
    /\ window = <<None, None>>
    /\ raised = ""

(***************************************************************************)
(* Dates                                                                   *)
(***************************************************************************)
timedelta(days) == days * TodPerDay

\* datetime.strftime("%Y-%m-%d")
strftime_date(dt) == dt \div TodPerDay

\* datetime.strptime(text, "%Y-%m-%d")
strptime_date(day) == day * TodPerDay

weekday(day) == day % 7

\* mutant: only a Saturday is moved on, a Sunday is returned as it is
next_announcement_date_sunday(day) == IF weekday(day) = 5 THEN day + 2 ELSE day

\* DateRule: the first business day (Monday..Friday) at or after the day
RECURSIVE next_announcement_date(_)
next_announcement_date(day) ==
    IF weekday(day) < 5 THEN day ELSE next_announcement_date(day + 1)

next_arxiv_update_day(dt) == strptime_date(next_announcement_date(strftime_date(dt)))

(***************************************************************************)
(* Sequences                                                               *)
(***************************************************************************)
Reverse(s) == [i \in 1..Len(s) |-> s[Len(s) + 1 - i]]

SeqsUpTo(S, n) == UNION {[1..k -> S] : k \in 0..n}

Range(s) == {s[i] : i \in 1..Len(s)}

Max(S) == CHOOSE x \in S : \A y \in S : y <= x

(***************************************************************************)
(* Text and the SQL LIKE operator                                          *)
(***************************************************************************)
\* SQLite's LIKE folds the case of ASCII letters
Lower(c) == IF c = "A" THEN "a" ELSE IF c = "B" THEN "b" ELSE c

\* pattern LIKE: "%" matches any run of characters, "_" any one character
RECURSIVE Like(_, _)
Like(text, pattern) ==
    IF pattern = <<>> THEN text = <<>>
    ELSE IF Head(pattern) = "%"
         THEN \E k \in 0..Len(text) : Like(SubSeq(text, k + 1, Len(text)), Tail(pattern))
    ELSE IF text = <<>> THEN FALSE
    ELSE /\ \/ Head(pattern) = "_"
            \/ Lower(Head(pattern)) = Lower(Head(text))
         /\ Like(Tail(text), Tail(pattern))

\* params.append(f"%{keyword}%")
LikeParam(keyword) == <<"%">> \o keyword \o <<"%">>

\* (title LIKE ? OR abstract LIKE ?)
FieldConditions(row, keyword) ==
    \/ Like(row.title, LikeParam(keyword))
    \/ Like(row.abstract, LikeParam(keyword))

(***************************************************************************)
(* Paper (in memory) and the papers table                                  *)
(***************************************************************************)
Paper(url, title, abstract, categories, submitted, announced) ==
    [url |-> url, title |-> title, abstract |-> abstract, categories |-> categories,
     first_submitted_date |-> submitted, first_announced_date |-> announced]

\* ",".join(paper.categories): the tags with a comma between two of them
RECURSIVE JoinCategories(_)
JoinCategories(categories) ==
    IF categories = <<>> THEN <<>>
    ELSE IF Len(categories) = 1 THEN categories
    ELSE <<Head(categories), ",">> \o JoinCategories(Tail(categories))

\* row["categories"].split(","): the empty text splits into one empty tag
RECURSIVE SplitCategories(_)
SplitCategories(text) ==
    IF text = <<>> THEN <<"">>
    ELSE IF Len(text) = 1 THEN text
    ELSE <<Head(text)>> \o SplitCategories(Tail(Tail(text)))

\* Paper.from_row: the DATE columns are parsed back into datetimes
from_row(row) ==
    Paper(row.url, row.title, row.abstract, SplitCategories(row.categories),
          strptime_date(row.first_submitted_date),
          strptime_date(row.first_announced_date))

\* one tuple of data_to_insert; t is datetime.now(UTC) read for this tuple
InsertTuple(paper, t) ==
    [url |-> paper.url, title |-> paper.title, abstract |-> paper.abstract,
     categories |-> JoinCategories(paper.categories),
     first_submitted_date |-> strftime_date(paper.first_submitted_date),
     first_announced_date |-> strftime_date(paper.first_announced_date),
     update_time |-> t]

\* mutant: the table has no key on url, every insert adds a row
InsertOrReplace_noKey(table, row) == table \cup {row}

\* mutant: INSERT OR IGNORE, the row already stored is kept
InsertOrReplace_ignore(table, row) ==
    IF \E r \in table : r.url = row.url THEN table ELSE table \cup {row}

\* INSERT OR REPLACE on a table whose PRIMARY KEY is url
InsertOrReplace(table, row) == {r \in table : r.url # row.url} \cup {row}

RECURSIVE executemany(_, _)
executemany(table, rows) ==
    IF rows = <<>> THEN table
    ELSE executemany(InsertOrReplace(table, Head(rows)), Tail(rows))

\* index of the first paper without an announced date, 0 when there is none
FirstNull(batch) ==
    IF \E i \in 1..Len(batch) : batch[i].first_announced_date = None
    THEN CHOOSE i \in 1..Len(batch) :
            /\ batch[i].first_announced_date = None
            /\ \A j \in 1..(i - 1) : batch[j].first_announced_date # None
    ELSE 0

\* mutant: the tuples are built and written one at a time, so the rows ahead
\* of the first paper without an announced date are written before it raises
add_papers_partial(table, batch, clock, optimized) ==
    LET n == IF FirstNull(batch) # 0 THEN FirstNull(batch) - 1 ELSE Len(batch)
    IN  [db |-> executemany(table, [i \in 1..n |-> InsertTuple(batch[i], clock + i - 1)]),
         raised |-> IF FirstNull(batch) # 0 THEN "AttributeError" ELSE "",
         now |-> clock + n]

\* mutant: autocommit, every executed statement is durable at once
with_conn_autocommit(table, executed, completed) == executed

\* `with self.conn:` what the block executed is committed when the block
\* ends, and rolled back when an exception leaves it or the process dies
with_conn(table, executed, completed) == IF completed THEN executed ELSE table

\* add_papers cut short inside executemany after n rows: a row that breaks a
\* NOT NULL constraint, a full disk, the process killed. Every tuple was
\* built before executemany was called.
add_papers_interrupted(table, batch, clock, n) ==
    LET rows == [i \in 1..Len(batch) |-> InsertTuple(batch[i], clock + i - 1)]
    IN  [db |-> with_conn(table, executemany(table, SubSeq(rows, 1, n)), FALSE),
         raised |-> "interrupted",
         now |-> clock + Len(batch)]

\* PaperDatabase.add_papers. optimized: the interpreter runs with -O and
\* skips the assert, and building the tuple of the first paper without an
\* announced date raises instead; either way nothing has been executed.
add_papers(table, batch, clock, optimized) ==
    IF FirstNull(batch) # 0
    THEN [db |-> table,
          raised |-> IF optimized THEN "AttributeError" ELSE "AssertionError",
          now |-> IF optimized THEN clock + FirstNull(batch) - 1 ELSE clock]
    ELSE [db |-> with_conn(table,
                    executemany(table,
                        [i \in 1..Len(batch) |-> InsertTuple(batch[i], clock + i - 1)]),
                    TRUE),
          raised |-> "",
          now |-> clock + Len(batch)]

\* mutant: no break at the first stored URL, every absent URL is counted
RECURSIVE count_new_papers_all(_, _)
count_new_papers_all(table, cands) ==
    IF cands = <<>> THEN 0
    ELSE (IF \E r \in table : r.url = Head(cands).url THEN 0 ELSE 1)
             + count_new_papers_all(table, Tail(cands))

\* PaperDatabase.count_new_papers
RECURSIVE count_new_papers(_, _)
count_new_papers(table, cands) ==
    IF cands = <<>> THEN 0
    ELSE IF \E r \in table : r.url = Head(cands).url THEN 0
    ELSE 1 + count_new_papers(table, Tail(cands))

\* mutant: the end of the range is left out
Between_exclusive(row, start, end) ==
    /\ row.first_announced_date >= start
    /\ row.first_announced_date < end

\* WHERE first_announced_date BETWEEN ? AND ?
Between(row, start, end) ==
    /\ row.first_announced_date >= start
    /\ row.first_announced_date <= end

\* PaperDatabase.delete_papers_in_date_range: SELECT COUNT(*), then DELETE
delete_papers_in_date_range(table, start, end) ==
    [count |-> Cardinality({r \in table : Between(r, start, end)}),
     db |-> {r \in table : ~Between(r, start, end)}]

\* datetime.strptime(text.split(".")[0], "%Y-%m-%d %H:%M:%S")
strptime_seconds(t) == (t \div TicksPerSecond) * TicksPerSecond

\* mutant: MAX(update_time) over the whole table, not over the newest day
newest_update_time_allrows(table) ==
    IF table = {}
    THEN [raised |-> "AttributeError", value |-> None]
    ELSE [raised |-> "", value |-> strptime_seconds(Max({r.update_time : r \in table}))]

\* PaperDatabase.newest_update_time; on an empty table MAX() is NULL and
\* None.split raises
newest_update_time(table) ==
    IF table = {}
    THEN [raised |-> "AttributeError", value |-> None]
    ELSE LET newest == Max({r.first_announced_date : r \in table})
             max_updated_time ==
                 Max({r.update_time : r \in {q \in table : q.first_announced_date = newest}})
         IN  [raised |-> "", value |-> strptime_seconds(max_updated_time)]

\* mutant: first_announced_date < ? for the end of the range
WhereClause_strictUntil(row, required_keywords, optional_keywords, date_from, date_until) ==
    /\ \A i \in 1..Len(required_keywords) : FieldConditions(row, required_keywords[i])
    /\ \A g \in 1..Len(optional_keywords) :
          optional_keywords[g] # <<>> =>
              \E k \in 1..Len(optional_keywords[g]) :
                  FieldConditions(row, optional_keywords[g][k])
    /\ date_from # None => row.first_announced_date >= date_from
    /\ date_until # None => row.first_announced_date < date_until

\* the WHERE clause built by search_papers_by_keywords
WhereClause(row, required_keywords, optional_keywords, date_from, date_until) ==
    /\ \A i \in 1..Len(required_keywords) : FieldConditions(row, required_keywords[i])
    /\ \A g \in 1..Len(optional_keywords) :
          optional_keywords[g] # <<>> =>
              \E k \in 1..Len(optional_keywords[g]) :
                  FieldConditions(row, optional_keywords[g][k])
    /\ date_from # None => row.first_announced_date >= date_from
    /\ date_until # None => row.first_announced_date <= date_until

\* ORDER BY first_announced_date DESC: any order of the rows that is
\* descending in the date (SQL leaves the order of ties open)
OrderByAnnouncedDesc(rows) ==
    {s \in [1..Cardinality(rows) -> rows] :
        /\ \A i, j \in 1..Cardinality(rows) : i # j => s[i] # s[j]
        /\ \A i, j \in 1..Cardinality(rows) :
              i < j => s[i].first_announced_date >= s[j].first_announced_date}

\* LIMIT n, left out when limit is None or 0
Limit(s, limit) ==
    IF limit = None \/ limit = 0 \/ limit >= Len(s) THEN s ELSE SubSeq(s, 1, limit)

\* PaperDatabase.search_papers_by_keywords: the result lists it may return
search_papers_by_keywords(table, required_keywords, optional_keywords, date_from, date_until, limit) ==
    LET hits == {r \in table : WhereClause(r, required_keywords, optional_keywords,
                                           date_from, date_until)}
    IN  {[i \in 1..Len(Limit(s, limit)) |-> from_row(s[i])] : s \in OrderByAnnouncedDesc(hits)}

(***************************************************************************)
(* Inputs of the store operations                                          *)
(***************************************************************************)
T_ab == <<"a", "b">>
T_Axb == <<"A", "x", "b">>
T_x == <<"x">>

K_ab == <<"a", "b">>
K_x == <<"x">>
K_a_b == <<"a", "_", "b">>

\* the papers handed to add_papers: two versions of u1 and of u2 that differ
\* in title and announced date, one announced at a time of day other than
\* midnight (parse_api_xml falls back to datetime.now()), and one without
\* an announced date
StorePool ==
    {Paper("u1", T_ab, T_x, <<"cs.LG">>, strptime_date(1), strptime_date(2)),
     Paper("u1", T_Axb, T_x, <<"cs.LG">>, strptime_date(1), strptime_date(3)),
     Paper("u2", T_x, T_ab, <<"cs.LG">>, strptime_date(2), strptime_date(3) + 1),
     Paper("u2", T_Axb, T_x, <<"cs.LG">>, strptime_date(1), strptime_date(2)),
     Paper("u2", T_ab, T_x, <<"cs.LG">>, strptime_date(1), None)}

StoreBatches == SeqsUpTo(StorePool, MaxBatch)

\* the batches written ahead of a search: every single paper that has an
\* announced date, and one batch that carries u1 twice
SearchBatches ==
    SeqsUpTo({p \in StorePool : p.first_announced_date # None}, 1)
    \cup {<<Paper("u1", T_ab, T_x, <<"cs.LG">>, strptime_date(1), strptime_date(2)),
            Paper("u1", T_Axb, T_x, <<"cs.LG">>, strptime_date(1), strptime_date(3))>>}

\* announced days of StorePool
DateArgs == {2, 3}

RequiredArgs == {<<>>, <<K_a_b>>, <<K_ab, K_x>>}

OptionalArgs == {<<>>, <<<<>>, <<K_x>>>>, <<<<K_ab, K_a_b>>, <<K_x>>>>}

\* every keyword filter over every date range, and the calls that leave a
\* date out or pass a limit
SearchArgs ==
    {<<r, o, f, u, None>> : r \in RequiredArgs, o \in OptionalArgs,
                            f \in DateArgs, u \in DateArgs}
    \cup {<<<<>>, <<>>, None, None, None>>, <<<<>>, <<>>, None, None, 1>>,
          <<<<>>, <<>>, 3, None, 0>>, <<<<K_ab, K_x>>, <<>>, None, 2, None>>}

CountURLs == {"u1", "u2"}

CountPaper(url) == Paper(url, T_x, T_x, <<"cs.LG">>, strptime_date(1), strptime_date(2))

CountBatches == SeqsUpTo({CountPaper(u) : u \in CountURLs}, 1)

CountArgs == SeqsUpTo({CountPaper(u) : u \in CountURLs}, MaxCand)

Idle == [op |-> "none"]

(***************************************************************************)
(* Store operations as steps                                               *)
(***************************************************************************)
\* add_papers reads the clock once for every tuple it builds, and the clock
\* has moved on by the next read
AddPapers(batches) ==
    \E batch \in batches, optimized \in BOOLEAN :
        LET r == add_papers(db, batch, now, optimized)
        IN  /\ r.now <= MaxClock
            /\ db' = r.db
            /\ now' = r.now
            /\ last' = [op |-> "add_papers", batch |-> batch, raised |-> r.raised,
                        pre |-> db, t0 |-> now]
            /\ UNCHANGED <<fetchVars, botVars, papers, first_announced_date>>

DeletePapersInDateRange ==
    \E start \in DateArgs, end \in DateArgs :
        LET r == delete_papers_in_date_range(db, start, end)
        IN  /\ db' = r.db
            /\ last' = [op |-> "delete_papers_in_date_range", start |-> start,
                        end |-> end, ret |-> r.count, pre |-> db]
            /\ UNCHANGED <<fetchVars, botVars, papers, first_announced_date, now>>

NewestUpdateTime ==
    LET r == newest_update_time(db)
    IN  /\ last' = [op |-> "newest_update_time", raised |-> r.raised, ret |-> r.value]
        /\ UNCHANGED <<fetchVars, botVars, papers, first_announced_date, db, now>>

SearchPapersByKeywords ==
    \E a \in SearchArgs :
        \E result \in search_papers_by_keywords(db, a[1], a[2], a[3], a[4], a[5]) :
            /\ last' = [op |-> "search_papers_by_keywords",
                        required_keywords |-> a[1], optional_keywords |-> a[2],
                        date_from |-> a[3], date_until |-> a[4], limit |-> a[5],
                        ret |-> result,
                        after |-> IF last.op = "add_papers" THEN last ELSE Idle]
            /\ UNCHANGED <<fetchVars, botVars, papers, first_announced_date, db, now>>

CountNewPapers ==
    \E cands \in CountArgs :
        /\ last' = [op |-> "count_new_papers", papers |-> cands,
                    ret |-> count_new_papers(db, cands), pre |-> db]
        /\ UNCHANGED <<fetchVars, botVars, papers, first_announced_date, db, now>>

InitStore ==
    /\ BotIdle
    /\ papers = <<>>
    /\ first_announced_date = None
    /\ db = {}
    /\ now = 0
    /\ last = Idle
    /\ FetchIdle

NextStore ==
    \/ AddPapers(StoreBatches)
    \/ DeletePapersInDateRange
    \/ NewestUpdateTime

SpecStore == InitStore /\ [][NextStore]_vars

NextSearch ==
    \/ AddPapers(SearchBatches)
    \/ SearchPapersByKeywords

SpecSearch == InitStore /\ [][NextSearch]_vars

NextCount ==
    \/ AddPapers(CountBatches)
    \/ CountNewPapers

SpecCount == InitStore /\ [][NextCount]_vars

\* mutant: the day of submission itself can be the day of announcement
next_possible_annouced_date_sameday(paper) ==
    next_arxiv_update_day(paper.first_submitted_date)

(***************************************************************************)
(* AnnouncementResolver: ArxivScraper.process_papers                       *)
(***************************************************************************)
\* next_arxiv_update_day(paper.first_submitted_date + timedelta(days=1))
next_possible_annouced_date(paper) ==
    next_arxiv_update_day(paper.first_submitted_date + timedelta(1))

\* mutant: the running floor is dropped, every record gets its own candidate
AdvanceFloor_reset(announced_date, candidate) == candidate

\* if announced_date < next_possible_annouced_date: announced_date = ...
AdvanceFloor(announced_date, candidate) ==
    IF announced_date < candidate THEN candidate ELSE announced_date

\* mutant: the list is walked front to back
ProcessingOrder_forward(ps) == ps

\* for paper in reversed(self.papers)
ProcessingOrder(ps) == Reverse(ps)

\* the announced dates assigned along the processing order
RECURSIVE AssignAnnounced(_, _)
AssignAnnounced(order, announced_date) ==
    IF order = <<>> THEN <<>>
    ELSE LET floor == AdvanceFloor(announced_date, next_possible_annouced_date(Head(order)))
         IN  <<[Head(order) EXCEPT !.first_announced_date = floor]>>
                 \o AssignAnnounced(Tail(order), floor)

\* the record list after the loop of process_papers
process_papers(ps, first_possible_day) ==
    ProcessingOrder(AssignAnnounced(ProcessingOrder(ps),
                                    next_arxiv_update_day(first_possible_day)))

\* process_papers: resolve the list in place, then self.paper_db.add_papers
ProcessPapers ==
    \E optimized \in BOOLEAN :
        LET resolved == process_papers(papers, first_announced_date)
            r == add_papers(db, resolved, now, optimized)
        IN  /\ r.now <= MaxClock
            /\ papers' = resolved
            /\ db' = r.db
            /\ now' = r.now
            /\ last' = [op |-> "process_papers", papers |-> papers, raised |-> r.raised,
                        pre |-> db, t0 |-> now]
            /\ UNCHANGED <<fetchVars, botVars, first_announced_date>>

\* a record as parse_search_html builds it: submitted at midnight of a day,
\* not yet announced
ParsedPaper(i, day) == Paper(ToString(i), T_x, T_x, <<"cs.LG">>, strptime_date(day), None)

\* the scraper after a fetch has accumulated its record list
InitResolve ==
    /\ BotIdle
    /\ \E n \in 0..MaxPapers : \E days \in [1..n -> 0..MaxDay] :
          papers = [i \in 1..n |-> ParsedPaper(i, days[i])]
    /\ first_announced_date \in {strptime_date(d) : d \in 0..MaxDay}
    /\ db = {}
    /\ now = 0
    /\ last = Idle
    /\ FetchIdle

NextResolve == ProcessPapers

SpecResolve == InitResolve /\ [][NextResolve]_vars

(***************************************************************************)
(* Properties of the resolver (SpecResolve)                                *)
(***************************************************************************)
Candidate(paper) == next_arxiv_update_day(paper.first_submitted_date + timedelta(1))

Processed == last.op = "process_papers" /\ last.raised = ""

AscendingSubmission(order) ==
    \A i, j \in 1..Len(order) :
        i < j => order[i].first_submitted_date < order[j].first_submitted_date

\* C1: after process_papers the announced dates are non-decreasing along the
\* processing order (the reverse of self.papers): for records i < j in that
\* order, announced[i] <= announced[j].
C1_AnnouncedNonDecreasing ==
    Processed =>
        LET order == Reverse(papers)
        IN  \A i, j \in 1..Len(order) :
                i < j => order[i].first_announced_date <= order[j].first_announced_date

\* a list in strictly ascending submission order has been resolved and the
\* floor has advanced between its first and its last record
C1_Witness ==
    /\ Processed
    /\ Len(papers) >= 2
    /\ AscendingSubmission(Reverse(papers))
    /\ papers[Len(papers)].first_announced_date < papers[1].first_announced_date

\* C2: the k-th record in processing order is announced on the maximum of the
\* initial floor next_arxiv_update_day(first_possible_day) and the candidates
\* next_arxiv_update_day(submitted + 1 day) of records 1..k, so never before
\* its own candidate.
C2_RunningFloor ==
    Processed =>
        LET order == Reverse(papers)
            before == Reverse(last.papers)
            floor0 == next_arxiv_update_day(first_announced_date)
        IN  /\ Len(order) = Len(before)
            /\ \A k \in 1..Len(order) :
                  /\ order[k].first_announced_date =
                         Max({floor0} \cup {Candidate(before[j]) : j \in 1..k})
                  /\ order[k].first_announced_date >= Candidate(before[k])
                  /\ order[k].url = before[k].url

\* the first record processed is held at the initial floor, above its own
\* candidate, and a later record lifts the floor to its candidate
C2_Witness ==
    /\ Processed
    /\ Len(papers) >= 2
    /\ LET order == Reverse(papers)
           floor0 == next_arxiv_update_day(first_announced_date)
       IN  /\ order[1].first_announced_date = floor0
           /\ Candidate(order[1]) < floor0
           /\ \E k \in 2..Len(order) :
                 /\ order[k].first_announced_date > floor0
                 /\ order[k].first_announced_date = Candidate(order[k])

(***************************************************************************)
(* Properties of the store (SpecStore, SpecCount, SpecSearch)              *)
(***************************************************************************)
RowsOf(table, url) == {r \in table : r.url = url}

URLsOf(table) == {r.url : r \in table}

Added == last.op = "add_papers" /\ last.raised = ""

\* the last record of the batch that carries the url
LastOf(batch, url) ==
    batch[Max({i \in 1..Len(batch) : batch[i].url = url})]

\* C3: after any sequence of add_papers and delete operations the table holds
\* at most one row per URL, also when a URL already stored is written again
\* and when a batch carries the same URL twice.
C3_OneRowPerUrl ==
    \A r1 \in db : \A r2 \in db : r1.url = r2.url => r1 = r2

\* a batch that carries one URL twice has been written over a row of that URL
C3_Witness ==
    /\ Added
    /\ Len(last.batch) = 2
    /\ last.batch[1].url = last.batch[2].url
    /\ last.batch[1] # last.batch[2]
    /\ RowsOf(last.pre, last.batch[1].url) # {}

\* C4: writing a URL again with another title leaves exactly one row for the
\* URL, with the title written last and an update_time read during the last
\* write, later than the one the row had.
C4_ReplaceRefreshes ==
    Added =>
        \A i \in 1..Len(last.batch) :
            LET url == last.batch[i].url
            IN  /\ Cardinality(RowsOf(db, url)) = 1
                /\ \A r \in RowsOf(db, url) :
                      /\ r.title = LastOf(last.batch, url).title
                      /\ last.t0 <= r.update_time
                      /\ r.update_time < now
                      /\ \A old \in RowsOf(last.pre, url) : old.update_time < r.update_time

\* a stored URL has been written again, in a call of its own, with another
\* title
C4_Witness ==
    /\ Added
    /\ Len(last.batch) = 1
    /\ \E old \in RowsOf(last.pre, last.batch[1].url) :
          /\ old.title # last.batch[1].title
          /\ \E r \in db : r.url = old.url /\ r.title # old.title

HasNull(batch) == \E i \in 1..Len(batch) : batch[i].first_announced_date = None

\* C7: add_papers on a batch in which a record has no announced date raises
\* and leaves the table as it was: no row of the batch is written.
C7_NullDateRejected ==
    (last.op = "add_papers" /\ HasNull(last.batch)) =>
        /\ last.raised # ""
        /\ db = last.pre

\* the record without a date comes second, behind a record that has one and
\* whose URL is stored with other content
C7_Witness ==
    /\ last.op = "add_papers"
    /\ Len(last.batch) = 2
    /\ last.batch[1].first_announced_date # None
    /\ last.batch[2].first_announced_date = None
    /\ \E r \in last.pre : r.url = last.batch[1].url /\ r.title # last.batch[1].title

NewestDay(table) == Max({r.first_announced_date : r \in table})

NewestStamp(table) ==
    Max({r.update_time : r \in {q \in table : q.first_announced_date = NewestDay(table)}})

Queried == last.op = "newest_update_time" /\ db # {}

\* C9 as stated: on a non-empty table newest_update_time returns the largest
\* update_time among the rows of the newest announced day.
C9_Original ==
    Queried => last.ret = NewestStamp(db)

\* C9 amended: it returns that largest update_time cut down to the whole
\* second, whatever rows of older announced days were written later.
C9_NewestTruncated ==
    Queried =>
        /\ last.raised = ""
        /\ last.ret <= NewestStamp(db)
        /\ NewestStamp(db) - last.ret < TicksPerSecond
        /\ last.ret % TicksPerSecond = 0

\* a row of an older day was written in a later second than the newest day's
\* rows, and the newest day's stamp is not a whole second
C9_Witness ==
    /\ Queried
    /\ last.ret # NewestStamp(db)
    /\ \E r \in db :
          /\ r.first_announced_date < NewestDay(db)
          /\ strptime_seconds(r.update_time) > last.ret

Deleted == last.op = "delete_papers_in_date_range"

InRange(row, from, to) ==
    from <= row.first_announced_date /\ row.first_announced_date <= to

\* C10: delete_papers_in_date_range(from, to) removes exactly the rows
\* announced in [from, to], returns how many it removed and leaves the other
\* rows as they were.
C10_DeleteRange ==
    Deleted =>
        /\ db = {r \in last.pre : ~InRange(r, last.start, last.end)}
        /\ last.pre \ db = {r \in last.pre : InRange(r, last.start, last.end)}
        /\ last.ret = Cardinality(last.pre \ db)

\* a row announced on the last day of the range is removed, a row outside
\* the range stays
C10_Witness ==
    /\ Deleted
    /\ db # {}
    /\ last.ret >= 1
    /\ \E r \in last.pre \ db : r.first_announced_date = last.end

\* C6: count_new_papers returns the length of the longest prefix of the
\* candidates whose URLs are all absent from the table, whatever follows the
\* first stored URL, and leaves the table as it was.
C6_CountNewPrefix ==
    last.op = "count_new_papers" =>
        /\ last.ret \in 0..Len(last.papers)
        /\ \A i \in 1..last.ret : last.papers[i].url \notin URLsOf(db)
        /\ last.ret < Len(last.papers) => last.papers[last.ret + 1].url \in URLsOf(db)
        /\ db = last.pre

\* positions 0-2 are new, position 3 is stored, a new entry follows: 3
C6_Witness ==
    /\ last.op = "count_new_papers"
    /\ Len(last.papers) = 5
    /\ \A i \in 1..3 : last.papers[i].url \notin URLsOf(db)
    /\ last.papers[4].url \in URLsOf(db)
    /\ last.papers[5].url \notin URLsOf(db)
    /\ last.ret = 3

Searched == last.op = "search_papers_by_keywords"

DayOf(dt) == dt \div TodPerDay

\* add_papers(R) succeeded and the next call is a search without keywords
\* and without limit over a range that spans the announced days of R
RoundTrip ==
    /\ Searched
    /\ last.after.op = "add_papers"
    /\ last.after.raised = ""
    /\ last.required_keywords = <<>>
    /\ last.optional_keywords = <<>>
    /\ last.limit = None
    /\ \A i \in 1..Len(last.after.batch) :
          /\ last.date_from # None =>
                 last.date_from <= DayOf(last.after.batch[i].first_announced_date)
          /\ last.date_until # None =>
                 DayOf(last.after.batch[i].first_announced_date) <= last.date_until

ResultURLs == {last.ret[k].url : k \in 1..Len(last.ret)}

\* the rows of other URLs that were stored, inside the range, before R
OtherRowsInRange ==
    {r \in last.after.pre :
        /\ r.url \notin {last.after.batch[i].url : i \in 1..Len(last.after.batch)}
        /\ last.date_from # None => last.date_from <= r.first_announced_date
        /\ last.date_until # None => r.first_announced_date <= last.date_until}

\* C5 as stated: add_papers(R), then a search without keywords over a range
\* that spans the announced dates of R, returns exactly the records of R,
\* one result per written URL.
C5_Original ==
    RoundTrip =>
        /\ ResultURLs = {last.after.batch[i].url : i \in 1..Len(last.after.batch)}
        /\ Len(last.ret) = Cardinality(ResultURLs)

\* C5 amended: the search returns one result per URL of R, with the text of
\* the last record of R for that URL and its dates as calendar days, and
\* besides them exactly the rows of other URLs stored in the range before.
C5_RoundTripWithOthers ==
    RoundTrip =>
        LET R == last.after.batch
            written == {R[i].url : i \in 1..Len(R)}
        IN  /\ Len(last.ret) = Cardinality(written) + Cardinality(OtherRowsInRange)
            /\ \A u \in written : \E k \in 1..Len(last.ret) :
                  /\ last.ret[k].url = u
                  /\ last.ret[k].title = LastOf(R, u).title
                  /\ last.ret[k].abstract = LastOf(R, u).abstract
                  /\ DayOf(last.ret[k].first_announced_date)
                         = DayOf(LastOf(R, u).first_announced_date)
                  /\ DayOf(last.ret[k].first_submitted_date)
                         = DayOf(LastOf(R, u).first_submitted_date)
            /\ \A r \in OtherRowsInRange : \E k \in 1..Len(last.ret) :
                  last.ret[k] = from_row(r)

\* R is written next to a row of another URL announced in the range, and the
\* range ends on the announced day of R
C5_Witness ==
    /\ RoundTrip
    /\ Len(last.after.batch) = 1
    /\ last.date_until = DayOf(last.after.batch[1].first_announced_date)
    /\ OtherRowsInRange # {}
    /\ Len(last.ret) = 2

\* the keyword occurs in the text, letters compared without case
Contains(text, keyword) ==
    \E k \in 0..(Len(text) - Len(keyword)) :
        \A i \in 1..Len(keyword) : Lower(text[k + i]) = Lower(keyword[i])

Mentions(row, keyword) == Contains(row.title, keyword) \/ Contains(row.abstract, keyword)

\* C8: a search with both dates and no limit returns exactly the rows that
\* are announced in [date_from, date_until], contain every required keyword
\* in title or abstract and, for every non-empty optional group, contain one
\* keyword of the group; the result is ordered by announced date descending.
C8_SearchExact ==
    (Searched /\ last.date_from # None /\ last.date_until # None /\ last.limit = None) =>
        LET expected ==
                {r \in db :
                    /\ InRange(r, last.date_from, last.date_until)
                    /\ \A i \in 1..Len(last.required_keywords) :
                          Mentions(r, last.required_keywords[i])
                    /\ \A g \in 1..Len(last.optional_keywords) :
                          last.optional_keywords[g] # <<>> =>
                              \E k \in 1..Len(last.optional_keywords[g]) :
                                  Mentions(r, last.optional_keywords[g][k])}
        IN  /\ Range(last.ret) = {from_row(r) : r \in expected}
            /\ Len(last.ret) = Cardinality(expected)
            /\ \A i, j \in 1..Len(last.ret) :
                  i < j => last.ret[i].first_announced_date >= last.ret[j].first_announced_date

(***************************************************************************)
(* FetchCoordinator and ResultParser: the source, its pages, the parsers   *)
(***************************************************************************)
PREV_DAY == 4
MaxRetry == 3
MaxApiDays == 31
MaxApiTotal == 1000

Min(a, b) == IF a <= b THEN a ELSE b

\* cat.startswith('cs.')
StartsWithCs(cat) == cat \in {"cs.LG", "cs.AI"}

\* mutant: a record passes when one of its tags is a cs. tag
cs_only_any(ps) ==
    SelectSeq(ps, LAMBDA paper :
        \E i \in 1..Len(paper.categories) : StartsWithCs(paper.categories[i]))

\* [paper for paper in self.papers if paper.categories and all(cat.startswith('cs.') ...)]
cs_only(ps) ==
    SelectSeq(ps, LAMBDA paper :
        /\ paper.categories # <<>>
        /\ \A i \in 1..Len(paper.categories) : StartsWithCs(paper.categories[i]))

\* an entry of the source's result list; date is the submission day its date
\* text spells, None when the text is not a date
Entry(url, date, categories) == [url |-> url, date |-> date, categories |-> categories]

\* the body of the page at an offset: the count header (or its absence), the
\* reported count and the entries of the page
Content(srv, start) ==
    [header |-> IF srv.header = "missing" THEN "missing"
                ELSE IF srv.results = <<>> THEN "Sorry" ELSE "ok",
     count |-> Len(srv.results),
     entries |-> SubSeq(srv.results, start + 1, Min(start + step, Len(srv.results)))]

\* not self.total
NotTotal(tot) == tot = None \/ tot = 0

BadDate(entries) == \E i \in 1..Len(entries) : entries[i].date = None

\* ArxivScraper.parse_search_html on a body: the first call reads self.total
\* from the count header; datetime.strptime raises on a date text it cannot read
parse_search_html(content, tot) ==
    IF NotTotal(tot) /\ content.header = "missing"
    THEN [papers |-> <<>>, total |-> tot, raised |-> "IndexError"]
    ELSE IF NotTotal(tot) /\ content.header = "Sorry"
    THEN [papers |-> <<>>, total |-> 0, raised |-> ""]
    ELSE LET t == IF NotTotal(tot) THEN content.count ELSE tot
         IN  IF BadDate(content.entries)
             THEN [papers |-> <<>>, total |-> t, raised |-> "ValueError"]
             ELSE [papers |-> [i \in 1..Len(content.entries) |->
                                 Paper(content.entries[i].url, T_x, T_x,
                                       content.entries[i].categories,
                                       strptime_date(content.entries[i].date), None)],
                   total |-> t, raised |-> ""]

\* ArxivScraper.parse_api_xml on a body: any exception is caught and the
\* batch comes back empty; the announced date is set to the submission date
parse_api_xml(content) ==
    IF BadDate(content.entries) THEN <<>>
    ELSE [i \in 1..Len(content.entries) |->
            Paper(content.entries[i].url, T_x, T_x, content.entries[i].categories,
                  strptime_date(content.entries[i].date),
                  strptime_date(content.entries[i].date))]

\* self.total as fetch_all_api reads it from the first body
api_total(content, first_batch) ==
    IF content.header # "missing" THEN content.count
    ELSE IF Len(first_batch) < step THEN Len(first_batch) ELSE MaxApiTotal

(***************************************************************************)
(* request / request_api: the retry loop of one page request               *)
(***************************************************************************)
ReqIssued == [error |-> 0, attempts |-> 0, state |-> "flying", handled |-> FALSE]

\* mutant: the loop runs while error <= 4
request_failed_5(r) ==
    [error |-> r.error + 1, attempts |-> r.attempts + 1,
     state |-> IF r.error + 1 <= MaxRetry + 1 THEN "flying" ELSE "none",
     handled |-> FALSE]

\* mutant: the count of errors starts again at the bound and the loop never
\* gives up
request_failed_forever(r) ==
    [error |-> (r.error + 1) % (MaxRetry + 1), attempts |-> (r.attempts + 1) % (MaxRetry + 1),
     state |-> "flying", handled |-> FALSE]

\* an attempt raises: error += 1; once error <= 3 no longer holds the loop
\* ends and None is returned
request_failed(r) ==
    [error |-> r.error + 1, attempts |-> r.attempts + 1,
     state |-> IF r.error + 1 <= MaxRetry THEN "flying" ELSE "none",
     handled |-> FALSE]

\* an attempt succeeds: the body is returned
request_returned(r) == [r EXCEPT !.attempts = @ + 1, !.state = "body"]

\* the request has returned and its caller has not yet gone on
Answered(r) == r.state \in {"body", "none"} /\ ~r.handled

\* an attempt of a request in flight fails
RequestFails ==
    \E s \in DOMAIN reqs :
        /\ pc \in {"first", "rest"}
        /\ reqs[s].state = "flying"
        /\ reqs' = [reqs EXCEPT ![s] = request_failed(@)]
        /\ UNCHANGED <<botVars, papers, first_announced_date, db, now, last, server,
                       mode, pc, total, issued, got, window, raised>>

\* an attempt of a request in flight succeeds
RequestSucceeds ==
    \E s \in DOMAIN reqs :
        /\ pc \in {"first", "rest"}
        /\ reqs[s].state = "flying"
        /\ reqs' = [reqs EXCEPT ![s] = request_returned(@)]
        /\ UNCHANGED <<botVars, papers, first_announced_date, db, now, last, server,
                       mode, pc, total, issued, got, window, raised>>

(***************************************************************************)
(* fetch_all: bulk-search mode                                             *)
(***************************************************************************)
\* range(start, stop, step) in order
OffsetSeq(start, stop) ==
    [i \in 1..Cardinality(OffsetRange(start, stop)) |-> start + (i - 1) * step]

\* mutant: the lists are chained last task first
RECURSIVE Chain_reversed(_, _)
Chain_reversed(lists, offsets) ==
    IF offsets = <<>> THEN <<>>
    ELSE Chain_reversed(lists, Tail(offsets)) \o lists[Head(offsets)]

\* chain(*papers_list): the wrappers' lists in the order the tasks were made
RECURSIVE Chain(_, _)
Chain(lists, offsets) ==
    IF offsets = <<>> THEN <<>>
    ELSE lists[Head(offsets)] \o Chain(lists, Tail(offsets))

\* the caller goes on with what the request returned; the locals of the call
\* (error) are gone
Handled(r) == [error |-> 0, attempts |-> 0, state |-> r.state, handled |-> TRUE]

\* fetch_all up to its first await: request(0) is issued
StartFetchAll ==
    /\ pc = "idle"
    /\ mode' = "fetch_all"
    /\ pc' = "first"
    /\ issued' = <<0>>
    /\ reqs' = [reqs EXCEPT ![0] = ReqIssued]
    /\ UNCHANGED <<papers, first_announced_date, db, now, last, server, total, got,
                   window, raised>>

\* fetch_all called on its own
FetchAll == StartFetchAll /\ UNCHANGED botVars

\* fetch_all from the answer to request(0) to the gather of the other pages
FetchAllFirst ==
    /\ mode = "fetch_all" /\ pc = "first" /\ Answered(reqs[0])
    /\ IF reqs[0].state = "none"
       THEN \* "Failed to fetch initial content, aborting...": a bare return
            /\ pc' = "done"
            /\ reqs' = [reqs EXCEPT ![0] = Handled(@)]
            /\ last' = [op |-> "fetch_all", outcome |-> "aborted", pre |-> db,
                        written |-> <<>>]
            /\ UNCHANGED <<papers, total, issued, raised>>
       ELSE LET r == parse_search_html(Content(server, 0), total)
            IN  IF r.raised # ""
                THEN /\ pc' = "raised"
                     /\ raised' = r.raised
                     /\ total' = r.total
                     /\ reqs' = [reqs EXCEPT ![0] = Handled(@)]
                     /\ last' = [op |-> "fetch_all", outcome |-> "raised", pre |-> db,
                                 written |-> <<>>]
                     /\ UNCHANGED <<papers, issued>>
                ELSE /\ pc' = "rest"
                     /\ papers' = papers \o r.papers
                     /\ total' = r.total
                     /\ issued' = issued \o OffsetSeq(step, r.total)
                     /\ reqs' = [s \in Starts |->
                                   IF s = 0 THEN Handled(reqs[s])
                                   ELSE IF s \in OffsetRange(step, r.total) THEN ReqIssued
                                   ELSE reqs[s]]
                     /\ UNCHANGED <<raised, last>>
    /\ UNCHANGED <<botVars, first_announced_date, db, now, server, mode, got, window>>

\* wrapper(start) of fetch_all once its request is answered
FetchAllWrapper ==
    \E s \in Starts \ {0} :
        /\ mode = "fetch_all" /\ pc = "rest" /\ Answered(reqs[s])
        /\ reqs' = [reqs EXCEPT ![s] = Handled(@)]
        /\ IF reqs[s].state = "none"
           THEN /\ got' = [got EXCEPT ![s] = <<>>]
                /\ UNCHANGED <<pc, raised, last>>
           ELSE LET r == parse_search_html(Content(server, s), total)
                IN  IF r.raised # ""
                    THEN /\ pc' = "raised"
                         /\ raised' = r.raised
                         /\ last' = [op |-> "fetch_all", outcome |-> "raised",
                                     pre |-> db, written |-> <<>>]
                         /\ UNCHANGED got
                    ELSE /\ got' = [got EXCEPT ![s] = r.papers]
                         /\ UNCHANGED <<pc, raised, last>>
        /\ UNCHANGED <<botVars, papers, first_announced_date, db, now, server, mode, total,
                       issued, window>>

\* fetch_all after the gather: the cs-only filter, then process_papers
FetchAllFinish ==
    \E optimized \in BOOLEAN :
        /\ mode = "fetch_all" /\ pc = "rest"
        /\ \A s \in Starts : reqs[s].state = "idle" \/ reqs[s].handled
        /\ \E resolved \in {process_papers(
                                 cs_only(papers \o Chain(got, OffsetSeq(step, total))),
                                 first_announced_date)} :
           \E r \in {add_papers(db, resolved, now, optimized)} :
               /\ papers' = resolved
               /\ db' = r.db
               /\ now' = r.now
               /\ pc' = IF r.raised = "" THEN "done" ELSE "raised"
               /\ raised' = r.raised
               /\ last' = [op |-> "fetch_all", outcome |-> "completed", pre |-> db,
                           written |-> IF r.raised = "" THEN resolved ELSE <<>>,
                           accumulated |-> papers \o Chain(got, OffsetSeq(step, total))]
        /\ UNCHANGED <<botVars, first_announced_date, server, mode, total, issued, reqs, got,
                       window>>

BulkKinds == {"cs", "mixed", "notag", "nodate"}

\* an entry of a bulk-search result page
BulkEntry(i, kind) ==
    Entry(ToString(i),
          IF kind = "nodate" THEN None ELSE 3,
          IF kind = "mixed" THEN <<"cs.LG", "stat.ML">>
          ELSE IF kind = "notag" THEN <<>> ELSE <<"cs.LG">>)

\* a freshly constructed scraper over an empty store, and what the source
\* will answer to its query
InitFetchAll ==
    /\ BotIdle
    /\ \E n \in 0..MaxResults : \E kinds \in [1..n -> BulkKinds] :
       \E header \in {"ok", "missing"} :
          server = [results |-> [i \in 1..n |-> BulkEntry(i, kinds[i])],
                    header |-> header]
    /\ papers = <<>>
    /\ first_announced_date = strptime_date(2)
    /\ db = {}
    /\ now = 0
    /\ last = Idle
    /\ mode = "none"
    /\ pc = "idle"
    /\ total = None
    /\ issued = <<>>
    /\ reqs = [s \in Starts |-> ReqIdle]
    /\ got = [s \in Starts |-> <<>>]
    /\ window = <<None, None>>
    /\ raised = ""

NextFetchAll ==
    \/ FetchAll
    \/ RequestFails
    \/ RequestSucceeds
    \/ FetchAllFirst
    \/ FetchAllWrapper
    \/ FetchAllFinish

SpecFetchAll == InitFetchAll /\ [][NextFetchAll]_vars

(***************************************************************************)
(* fetch_all_api: programmatic mode                                        *)
(***************************************************************************)
\* (date_until - date_from).days of the requested window
WindowDays(win) == strftime_date(strptime_date(win[2]) - strptime_date(win[1]))

\* the local date_from of fetch_all_api: a single-day window is widened
\* PREV_DAY days back
api_date_from(win) ==
    IF strptime_date(win[1]) = strptime_date(win[2])
    THEN strptime_date(win[2]) - timedelta(PREV_DAY)
    ELSE strptime_date(win[1])

\* the post-fetch filter: date_from <= paper.first_submitted_date <= date_until
api_filter(ps, win) ==
    SelectSeq(ps, LAMBDA paper :
        /\ api_date_from(win) <= paper.first_submitted_date
        /\ paper.first_submitted_date <= strptime_date(win[2]))

\* fetch_all_api after its last batch: the window filter, add_papers of the
\* filtered records, then the cs-only filter on self.papers
api_finish(ps, win, table, clock, optimized) ==
    LET filtered_papers == api_filter(ps, win)
        r == IF filtered_papers # <<>> THEN add_papers(table, filtered_papers, clock, optimized)
             ELSE [db |-> table, raised |-> "", now |-> clock]
    IN  [papers |-> IF r.raised = "" THEN cs_only(filtered_papers) ELSE ps,
         db |-> r.db, now |-> r.now, raised |-> r.raised,
         written |-> IF r.raised = "" THEN filtered_papers ELSE <<>>]

\* min(paper.first_submitted_date for paper in papers_batch)
Earliest(batch) ==
    CHOOSE d \in {batch[i].first_submitted_date : i \in 1..Len(batch)} :
        \A i \in 1..Len(batch) : d <= batch[i].first_submitted_date

\* the loop of fetch_all_api leaves after this batch
ApiBreak(batch, win) ==
    \/ Len(batch) < step
    \/ batch # <<>> /\ Earliest(batch) < api_date_from(win) - timedelta(PREV_DAY)

\* mutant: a window of more than 31 days is fetched like any other
ApiTooLong_never(win) == FALSE

\* (date_until - date_from).days > 31
ApiTooLong(win) == WindowDays(win) > MaxApiDays

\* fetch_all_api up to its first await: the window check, then request_api(0)
StartFetchAllApi ==
    /\ pc = "idle"
    /\ mode' = "fetch_all_api"
    /\ IF ApiTooLong(window)
       THEN /\ pc' = "done"
            /\ last' = [op |-> "fetch_all_api", outcome |-> "rejected", pre |-> db,
                        written |-> <<>>]
            /\ UNCHANGED <<issued, reqs>>
       ELSE /\ pc' = "first"
            /\ issued' = <<0>>
            /\ reqs' = [reqs EXCEPT ![0] = ReqIssued]
            /\ UNCHANGED last
    /\ UNCHANGED <<papers, first_announced_date, db, now, server, total, got, window,
                   raised>>

\* fetch_all_api called on its own
FetchAllApi == StartFetchAllApi /\ UNCHANGED botVars

\* the fetch ends: the state after api_finish
ApiFinish(ps, optimized) ==
    \E f \in {api_finish(ps, window, db, now, optimized)} :
        /\ papers' = f.papers
        /\ db' = f.db
        /\ now' = f.now
        /\ raised' = f.raised
        /\ pc' = IF f.raised = "" THEN "done" ELSE "raised"
        /\ last' = [op |-> "fetch_all_api", outcome |-> "completed", pre |-> db,
                    written |-> f.written]

\* fetch_all_api from the answer to request_api(0) to its next await
FetchApiFirst ==
    \E optimized \in BOOLEAN :
        /\ mode = "fetch_all_api" /\ pc = "first" /\ Answered(reqs[0])
        /\ IF reqs[0].state = "none"
           THEN \* "Failed to fetch initial API content, aborting...": a bare return
                /\ pc' = "done"
                /\ reqs' = [reqs EXCEPT ![0] = Handled(@)]
                /\ last' = [op |-> "fetch_all_api", outcome |-> "aborted", pre |-> db,
                            written |-> <<>>]
                /\ UNCHANGED <<papers, db, now, total, issued, raised>>
           ELSE \E first_batch \in {parse_api_xml(Content(server, 0))} :
                \E tot \in {api_total(Content(server, 0), first_batch)} :
                    /\ total' = tot
                    /\ IF tot > step /\ step < Min(tot, MaxApiTotal)
                       THEN /\ papers' = papers \o first_batch
                            /\ pc' = "rest"
                            /\ issued' = issued \o <<step>>
                            /\ reqs' = [reqs EXCEPT ![0] = Handled(@), ![step] = ReqIssued]
                            /\ UNCHANGED <<db, now, raised, last>>
                       ELSE /\ ApiFinish(papers \o first_batch, optimized)
                            /\ reqs' = [reqs EXCEPT ![0] = Handled(@)]
                            /\ UNCHANGED issued
        /\ UNCHANGED <<botVars, first_announced_date, server, mode, got, window>>

\* mutant: the while loop runs up to the reported total
FetchApiBatch_uncapped ==
    \E optimized \in BOOLEAN :
        LET current_start == issued[Len(issued)]
        IN  /\ mode = "fetch_all_api" /\ pc = "rest" /\ Answered(reqs[current_start])
            /\ \E papers_batch \in {IF reqs[current_start].state = "none" THEN <<>>
                                     ELSE parse_api_xml(Content(server, current_start))} :
               IF ~ApiBreak(papers_batch, window)
                  /\ current_start + step < total
               THEN /\ papers' = papers \o papers_batch
                    /\ issued' = issued \o <<current_start + step>>
                    /\ reqs' = [reqs EXCEPT ![current_start] = Handled(@),
                                            ![current_start + step] = ReqIssued]
                    /\ UNCHANGED <<db, now, raised, last, pc>>
               ELSE /\ ApiFinish(papers \o papers_batch, optimized)
                    /\ reqs' = [reqs EXCEPT ![current_start] = Handled(@)]
                    /\ UNCHANGED issued
            /\ UNCHANGED <<botVars, first_announced_date, server, mode, total, got, window>>

\* one turn of the while loop: wrapper(current_start) has returned
FetchApiBatch ==
    \E optimized \in BOOLEAN :
        LET current_start == issued[Len(issued)]
        IN  /\ mode = "fetch_all_api" /\ pc = "rest" /\ Answered(reqs[current_start])
            /\ \E papers_batch \in {IF reqs[current_start].state = "none" THEN <<>>
                                     ELSE parse_api_xml(Content(server, current_start))} :
               IF ~ApiBreak(papers_batch, window)
                  /\ current_start + step < Min(total, MaxApiTotal)
               THEN /\ papers' = papers \o papers_batch
                    /\ issued' = issued \o <<current_start + step>>
                    /\ reqs' = [reqs EXCEPT ![current_start] = Handled(@),
                                            ![current_start + step] = ReqIssued]
                    /\ UNCHANGED <<db, now, raised, last, pc>>
               ELSE /\ ApiFinish(papers \o papers_batch, optimized)
                    /\ reqs' = [reqs EXCEPT ![current_start] = Handled(@)]
                    /\ UNCHANGED issued
            /\ UNCHANGED <<botVars, first_announced_date, server, mode, total, got, window>>

ApiKinds == {"in", "back", "old", "mixed", "nodate"}

\* an entry of an API feed: submitted on the last day of the windows, two
\* days before it, six days before it, or carrying a text that is no date
ApiEntry(i, kind) ==
    Entry(ToString(i),
          IF kind = "nodate" THEN None
          ELSE IF kind = "back" THEN 38 ELSE IF kind = "old" THEN 34 ELSE 40,
          IF kind = "mixed" THEN <<"cs.LG", "stat.ML">> ELSE <<"cs.LG">>)

\* self.date_from, self.date_until: one day, two days, 31 days, 32 days
ApiWindows == {<<40, 40>>, <<39, 40>>, <<9, 40>>, <<8, 40>>}

InitFetchApi ==
    /\ BotIdle
    /\ \E n \in 0..MaxResults : \E kinds \in [1..n -> ApiKinds] :
       \E header \in {"ok", "missing"} :
          server = [results |-> [i \in 1..n |-> ApiEntry(i, kinds[i])],
                    header |-> header]
    /\ window \in ApiWindows
    /\ papers = <<>>
    /\ first_announced_date = strptime_date(window[1])
    /\ db = {}
    /\ now = 0
    /\ last = Idle
    /\ mode = "none"
    /\ pc = "idle"
    /\ total = None
    /\ issued = <<>>
    /\ reqs = [s \in Starts |-> ReqIdle]
    /\ got = [s \in Starts |-> <<>>]
    /\ raised = ""

NextFetchApi ==
    \/ FetchAllApi
    \/ RequestFails
    \/ RequestSucceeds
    \/ FetchApiFirst
    \/ FetchApiBatch

SpecFetchApi == InitFetchApi /\ [][NextFetchApi]_vars

(***************************************************************************)
(* fetch_update: incremental mode                                          *)
(***************************************************************************)
\* the datetime a stored update_time reads as: the clock of the model runs
\* within calendar day 9
utc_datetime(t) == strptime_date(9) + Min(t, TodPerDay - 1)

\* mutant: the slice is taken from the head of the list
Slice_from_head(ps, start, stop) == SubSeq(ps, 1, Min(stop, Len(ps)))

\* self.papers[start : start + self.step]
Slice(ps, start, stop) == SubSeq(ps, Min(start, Len(ps)) + 1, Min(stop, Len(ps)))

\* mutant: the stopping page is not cut back to its new prefix
update_async_notrunc(ps, tot, table, srv, answer, start) ==
    IF answer = "none"
    THEN [papers |-> ps, total |-> tot, raised |-> "", continue_update |-> FALSE]
    ELSE LET r == parse_search_html(Content(srv, start), tot)
             all == ps \o r.papers
             cnt_new == count_new_papers(table, Slice(all, start, start + step))
         IN  IF r.raised # ""
             THEN [papers |-> ps, total |-> r.total, raised |-> r.raised,
                   continue_update |-> FALSE]
             ELSE [papers |-> all, total |-> r.total, raised |-> "",
                   continue_update |-> ~(cnt_new < step)]

\* ArxivScraper.update_async(start) from the answer of its request on
update_async(ps, tot, table, srv, answer, start) ==
    IF answer = "none"
    THEN [papers |-> ps, total |-> tot, raised |-> "", continue_update |-> FALSE]
    ELSE LET r == parse_search_html(Content(srv, start), tot)
             all == ps \o r.papers
             cnt_new == count_new_papers(table, Slice(all, start, start + step))
         IN  IF r.raised # ""
             THEN [papers |-> ps, total |-> r.total, raised |-> r.raised,
                   continue_update |-> FALSE]
             ELSE IF cnt_new < step
             THEN [papers |-> Slice(all, 0, start + cnt_new), total |-> r.total,
                   raised |-> "", continue_update |-> FALSE]
             ELSE [papers |-> all, total |-> r.total, raised |-> "",
                   continue_update |-> TRUE]

\* fetch_update up to its first await: newest_update_time, the floor of the
\* announcement dates, then request(0)
StartFetchUpdate ==
    LET r == newest_update_time(db)
    IN  /\ pc = "idle"
        /\ mode' = "fetch_update"
        /\ IF r.raised # ""
           THEN /\ pc' = "raised"
                /\ raised' = r.raised
                /\ last' = [op |-> "fetch_update", outcome |-> "raised", pre |-> db,
                            written |-> <<>>]
                /\ UNCHANGED <<first_announced_date, issued, reqs>>
           ELSE /\ pc' = "first"
                /\ first_announced_date' = next_arxiv_update_day(utc_datetime(r.value))
                /\ issued' = <<0>>
                /\ reqs' = [reqs EXCEPT ![0] = ReqIssued]
                /\ UNCHANGED <<raised, last>>
        /\ UNCHANGED <<papers, db, now, server, total, got, window>>

\* fetch_update called on its own
FetchUpdate == StartFetchUpdate /\ UNCHANGED botVars

\* fetch_update after update_async(start) returned u: the for loop over
\* range(self.step, self.total, self.step), then process_papers
UpdateGoesOn(u, start, optimized) ==
    /\ papers' = IF u.raised # "" \/ u.total = None \/
                    (u.continue_update /\ start + step < u.total)
                 THEN u.papers
                 ELSE process_papers(u.papers, first_announced_date)
    /\ total' = u.total
    /\ IF u.raised # ""
       THEN /\ pc' = "raised"
            /\ raised' = u.raised
            /\ reqs' = [reqs EXCEPT ![start] = Handled(@)]
            /\ last' = [op |-> "fetch_update", outcome |-> "raised", pre |-> db,
                        written |-> <<>>]
            /\ UNCHANGED <<db, now, issued>>
       ELSE IF u.total = None
       THEN \* range(self.step, None, self.step)
            /\ pc' = "raised"
            /\ raised' = "TypeError"
            /\ reqs' = [reqs EXCEPT ![start] = Handled(@)]
            /\ last' = [op |-> "fetch_update", outcome |-> "raised", pre |-> db,
                        written |-> <<>>]
            /\ UNCHANGED <<db, now, issued>>
       ELSE IF u.continue_update /\ start + step < u.total
       THEN /\ pc' = "rest"
            /\ issued' = issued \o <<start + step>>
            /\ reqs' = [reqs EXCEPT ![start] = Handled(@), ![start + step] = ReqIssued]
            /\ UNCHANGED <<db, now, raised, last>>
       ELSE \E resolved \in {process_papers(u.papers, first_announced_date)} :
            \E r \in {add_papers(db, resolved, now, optimized)} :
                /\ db' = r.db
                /\ now' = r.now
                /\ raised' = r.raised
                /\ pc' = IF r.raised = "" THEN "done" ELSE "raised"
                /\ reqs' = [reqs EXCEPT ![start] = Handled(@)]
                /\ last' = [op |-> "fetch_update", outcome |-> "completed", pre |-> db,
                            written |-> IF r.raised = "" THEN resolved ELSE <<>>]
                /\ UNCHANGED issued

\* fetch_update from the answer to the request of update_async(0)
FetchUpdateFirst ==
    \E optimized \in BOOLEAN :
        /\ mode = "fetch_update" /\ pc = "first" /\ Answered(reqs[0])
        /\ \E u \in {update_async(papers, total, db, server, reqs[0].state, 0)} :
               UpdateGoesOn(u, 0, optimized)
        /\ UNCHANGED <<botVars, first_announced_date, server, mode, got, window>>

\* fetch_update from the answer to the request of a later update_async(start)
FetchUpdatePage ==
    \E optimized \in BOOLEAN :
        LET start == issued[Len(issued)]
        IN  /\ mode = "fetch_update" /\ pc = "rest" /\ Answered(reqs[start])
            /\ \E u \in {update_async(papers, total, db, server, reqs[start].state,
                                       start)} :
                   UpdateGoesOn(u, start, optimized)
            /\ UNCHANGED <<botVars, first_announced_date, server, mode, got, window>>

UpdateKinds == {"cs", "mixed", "nodate"}

\* a row an earlier fetch has stored
StoredRow(url) ==
    InsertTuple(Paper(url, T_x, T_x, <<"cs.LG">>, strptime_date(3), strptime_date(4)), 0)

\* the URLs earlier fetches have stored: none, one of the source's entries,
\* or one the source no longer lists
StoredSets == {{}} \cup {{ToString(i)} : i \in 0..MaxResults}

\* a freshly constructed scraper over the store earlier fetches have left
InitFetchUpdate ==
    /\ BotIdle
    /\ \E n \in 0..MaxResults : \E kinds \in [1..n -> UpdateKinds] :
       \E header \in {"ok", "missing"} :
          server = [results |-> [i \in 1..n |-> BulkEntry(i, kinds[i])],
                    header |-> header]
    /\ \E stored \in StoredSets : db = {StoredRow(url) : url \in stored}
    /\ papers = <<>>
    /\ first_announced_date = strptime_date(2)
    /\ now = 1
    /\ last = Idle
    /\ mode = "none"
    /\ pc = "idle"
    /\ total = None
    /\ issued = <<>>
    /\ reqs = [s \in Starts |-> ReqIdle]
    /\ got = [s \in Starts |-> <<>>]
    /\ window = <<None, None>>
    /\ raised = ""

NextFetchUpdate ==
    \/ FetchUpdate
    \/ RequestFails
    \/ RequestSucceeds
    \/ FetchUpdateFirst
    \/ FetchUpdatePage

SpecFetchUpdate == InitFetchUpdate /\ [][NextFetchUpdate]_vars

(***************************************************************************)
(* Properties of the page requests (SpecFetchAll)                          *)
(***************************************************************************)
\* C13: a page request makes at most MaxRetry + 1 attempts; it returns the
\* body at its first successful attempt (every earlier attempt failed), and
\* only once MaxRetry + 1 attempts have failed it returns None (the state
\* "none" of the request: a value handed to the caller, not an exception)
C13_RetryBound ==
    \A s \in Starts :
        LET r == reqs[s]
        IN  /\ r.attempts <= MaxRetry + 1
            /\ r.state = "flying" => r.attempts = r.error /\ r.error <= MaxRetry
            /\ Answered(r) /\ r.state = "body" => r.attempts = r.error + 1
            /\ Answered(r) /\ r.state = "none" =>
                   r.attempts = MaxRetry + 1 /\ r.error = MaxRetry + 1

\* one request of a fetch has given up after its fourth failure and another
\* has succeeded at its fourth attempt
C13_Witness ==
    \E s, t \in Starts :
        /\ reqs[s].state = "none" /\ reqs[s].attempts = MaxRetry + 1
        /\ reqs[t].state = "body" /\ reqs[t].error = MaxRetry

(***************************************************************************)
(* Properties of fetch_all (SpecFetchAll)                                  *)
(***************************************************************************)
\* the offsets of the pages the source's result list fills
PagesOf(srv) == OffsetRange(0, Len(srv.results))

WellFormed(entries) == SelectSeq(entries, LAMBDA e : e.date # None)

AllCs(categories) ==
    categories # <<>> /\ \A i \in 1..Len(categories) : StartsWithCs(categories[i])

\* C14: when fetch_all has returned over a source whose pages all parse, a
\* page whose request failed after its retries counted as empty, the first
\* page included: every page of the result list was requested and every
\* cs-only record of a page whose request succeeded is in the store
C14_FailedPageIsEmpty ==
    (mode = "fetch_all" /\ pc = "done" /\ server.header = "ok"
        /\ ~BadDate(server.results)) =>
        /\ \A s \in PagesOf(server) : reqs[s].state # "idle"
        /\ \A s \in PagesOf(server) :
              reqs[s].state = "body" =>
                  \A i \in 1..Len(Content(server, s).entries) :
                      AllCs(Content(server, s).entries[i].categories) =>
                          Content(server, s).entries[i].url \in URLsOf(db)

\* C16: a first page without the count header sets self.total to a default
\* and the fetch does not end with an error
C16_UnrecognisedFirstPage ==
    (server.header = "missing" /\ reqs[0].state = "body" /\ reqs[0].handled) =>
        (pc # "raised" /\ total # None)

\* C17: parsing a page never raises because of an entry whose date text does
\* not parse, and the page's well-formed entries are all returned
C17_MalformedEntryDroppedAlone ==
    mode = "fetch_all" =>
        /\ raised # "ValueError"
        /\ \A s \in Starts \ {0} :
              (reqs[s].state = "body" /\ reqs[s].handled) =>
                  LET good == WellFormed(Content(server, s).entries)
                  IN  /\ Len(got[s]) = Len(good)
                      /\ \A i \in 1..Len(good) : got[s][i].url = good[i].url

(***************************************************************************)
(* Properties of fetch_all_api (SpecFetchApi)                              *)
(***************************************************************************)
\* C11: fetch_all_api over a window of more than MaxApiDays days returns at
\* once: no request is issued, no record accepted, nothing written; a window
\* of MaxApiDays days or less is not rejected and its first batch is requested
C11_LongWindowRejected ==
    (mode = "fetch_all_api") =>
        /\ WindowDays(window) > MaxApiDays =>
              /\ pc = "done" /\ last.outcome = "rejected"
              /\ issued = <<>>
              /\ \A s \in Starts : reqs[s] = ReqIdle
              /\ papers = <<>>
              /\ db = last.pre /\ last.written = <<>>
        /\ WindowDays(window) <= MaxApiDays =>
              /\ last.op = "fetch_all_api" => last.outcome # "rejected"
              /\ issued # <<>> /\ issued[1] = 0

\* a window of MaxApiDays + 1 days has been rejected
C11_Witness ==
    /\ mode = "fetch_all_api" /\ pc = "done"
    /\ WindowDays(window) = MaxApiDays + 1
    /\ last.outcome = "rejected"

InRequestedWindow(paper) ==
    /\ strptime_date(window[1]) <= paper.first_submitted_date
    /\ paper.first_submitted_date <= strptime_date(window[2])

\* C12: when fetch_all_api has completed, every record it kept and every
\* record it wrote was submitted inside the window as it was requested
C12_KeptInsideRequestedWindow ==
    (last.op = "fetch_all_api" /\ last.outcome = "completed") =>
        /\ \A i \in 1..Len(papers) : InRequestedWindow(papers[i])
        /\ \A i \in 1..Len(last.written) : InRequestedWindow(last.written[i])

\* C19: no fetch writes a record that carries a tag outside cs.
C19_NoNonCsWritten ==
    (last.op \in {"fetch_all", "fetch_all_api", "fetch_update"}) =>
        \A i \in 1..Len(last.written) : AllCs(last.written[i].categories)

(***************************************************************************)
(* Properties of fetch_update (SpecFetchUpdate)                            *)
(***************************************************************************)
\* C15: when the first page request of fetch_update has failed after its
\* retries, the update completes without raising, accepts no record and
\* leaves the store as it was
C15_FirstPageFailureIsEmpty ==
    (mode = "fetch_update" /\ reqs[0].state = "none" /\ reqs[0].handled) =>
        /\ pc = "done" /\ raised = ""
        /\ papers = <<>>
        /\ db = last.pre

\* C18: when a fetch has completed, every record kept in the result list has
\* a non-empty category list whose tags all start with cs.
C18_KeptAllCs ==
    (last.op \in {"fetch_all", "fetch_all_api", "fetch_update"}
        /\ last.outcome = "completed") =>
        \A i \in 1..Len(papers) : AllCs(papers[i].categories)

\* the store a running or finished fetch_update counts new records against
StoreBefore == IF last.op = "fetch_update" THEN last.pre ELSE db

\* the records of the page at an offset, as the parser returns them once
\* self.total is set
PageRecords(start) == parse_search_html(Content(server, start), step).papers

\* count_new_papers of the page at an offset; nothing when its request failed
NewOn(start) ==
    IF reqs[start].state = "none" THEN 0
    ELSE count_new_papers(StoreBefore, PageRecords(start))

\* the records of the pages before the last requested one, then the new
\* prefix of the last requested page
RECURSIVE AcceptedOf(_)
AcceptedOf(offsets) ==
    IF offsets = <<>> THEN <<>>
    ELSE IF Len(offsets) = 1
    THEN SubSeq(PageRecords(Head(offsets)), 1, NewOn(Head(offsets)))
    ELSE PageRecords(Head(offsets)) \o AcceptedOf(Tail(offsets))

UrlSeq(ps) == [i \in 1..Len(ps) |-> ps[i].url]

\* C20: fetch_update requests the pages in increasing offset, one page size
\* apart from 0, and only after pages that were wholly new: no page follows
\* one whose count of new records is below the page size. When it has
\* completed, the accepted records are the records of the earlier pages and
\* the new prefix of the stopping page, and exactly these are resolved and
\* upserted
C20_StopsAtFirstKnownRecord ==
    (mode = "fetch_update") =>
        /\ \A i \in 1..Len(issued) : issued[i] = (i - 1) * step
        /\ \A i \in 1..(Len(issued) - 1) :
              reqs[issued[i]].state = "body" /\ NewOn(issued[i]) = step
        /\ pc = "done" =>
              /\ NewOn(issued[Len(issued)]) < step \/
                     issued[Len(issued)] + step >= total
              /\ UrlSeq(papers) = UrlSeq(AcceptedOf(issued))
              /\ UrlSeq(last.written) = UrlSeq(AcceptedOf(issued))
              /\ URLsOf(db) = URLsOf(last.pre) \cup Range(UrlSeq(AcceptedOf(issued)))
              /\ \A i \in 1..Len(papers) :
                     \E r \in db : /\ r.url = papers[i].url
                                   /\ r.update_time >= 1

\* a completed update that stopped on its second page or later, inside the
\* page: some but not all of its records were new
C20_Witness ==
    /\ last.op = "fetch_update" /\ last.outcome = "completed"
    /\ Len(issued) >= 2
    /\ reqs[issued[Len(issued)]].state = "body"
    /\ NewOn(issued[Len(issued)]) > 0
    /\ NewOn(issued[Len(issued)]) < Len(PageRecords(issued[Len(issued)]))

(***************************************************************************)
(* The offsets of update_async (SpecFetchUpdate)                           *)
(***************************************************************************)
\* the offset of the update_async call that waits for its page
PendingStart == issued[Len(issued)]

\* update_async(start) is waiting for the answer of its request
UpdatePending == mode = "fetch_update" /\ pc \in {"first", "rest"}

\* what the pending update_async call makes of a body
PendingUpdate == update_async(papers, total, db, server, "body", PendingStart)

\* the records the pending call parses from a body
PendingPage == parse_search_html(Content(server, PendingStart), total)

\* C38: during fetch_update on a scraper whose record list starts empty,
\* each call update_async(start) begins with exactly start accumulated
\* records; the slice papers[start : start + step] handed to
\* count_new_papers is exactly the page just parsed, and the list the call
\* leaves keeps every record of the earlier pages
C38_CallStartsAtOffset ==
    UpdatePending =>
        /\ Len(papers) = PendingStart
        /\ (reqs[PendingStart].state = "body" /\ PendingPage.raised = "") =>
              /\ Slice(papers \o PendingPage.papers, PendingStart, PendingStart + step)
                     = PendingPage.papers
              /\ Len(PendingUpdate.papers) >= PendingStart
              /\ SubSeq(PendingUpdate.papers, 1, PendingStart) = papers

\* a call at a later offset whose page is cut back: some but not all of its
\* records are new
C38_Witness ==
    /\ UpdatePending
    /\ PendingStart >= step
    /\ reqs[PendingStart].state = "body"
    /\ PendingPage.raised = ""
    /\ ~PendingUpdate.continue_update
    /\ Len(PendingUpdate.papers) > PendingStart
    /\ Len(PendingUpdate.papers) < PendingStart + Len(PendingPage.papers)

(***************************************************************************)
(* Pagination of fetch_all_api (SpecFetchApi)                              *)
(***************************************************************************)
\* the batch fetch_all_api got for an offset: nothing when the request failed
ApiBatchOf(start) ==
    IF reqs[start].state = "none" THEN <<>> ELSE parse_api_xml(Content(server, start))

\* the batch ends the pagination: it is shorter than a page, or its oldest
\* record was submitted before the requested lower bound minus PREV_DAY days
StoppingBatch(start) ==
    LET batch == ApiBatchOf(start)
    IN  \/ Len(batch) < step
        \/ batch # <<>> /\
              Earliest(batch) < strptime_date(window[1]) - timedelta(PREV_DAY)

\* C21: fetch_all_api has at most one request in flight, requests the
\* offsets 0, step, 2 * step, ... in this order, and requests no batch after
\* a batch later than the first that is a stopping batch
C21_SequentialUntilStop ==
    (mode = "fetch_all_api") =>
        /\ Cardinality({s \in Starts : reqs[s].state = "flying"}) <= 1
        /\ \A i \in 1..Len(issued) : issued[i] = (i - 1) * step
        /\ \A i \in 2..(Len(issued) - 1) : ~StoppingBatch(issued[i])

(***************************************************************************)
(* The cap of fetch_all_api (SpecApiCap)                                   *)
(***************************************************************************)
\* the offsets up to two batches beyond the cap
CapStarts == OffsetRange(0, MaxApiTotal + 2 * step)

\* a feed of n entries: the first submitted inside the window, the others
\* one day before it
CapFeed(n) == [i \in 1..n |-> ApiEntry(i, IF i = 1 THEN "in" ELSE "back")]

\* a freshly constructed scraper for two days, over a feed that holds as many
\* entries as the cap or more than a batch beyond it
InitApiCap ==
    /\ BotIdle
    /\ \E n \in {MaxApiTotal, MaxApiTotal + step + 1} :
       \E header \in {"ok", "missing"} :
          server = [results |-> CapFeed(n), header |-> header]
    /\ window = <<39, 40>>
    /\ papers = <<>>
    /\ first_announced_date = strptime_date(window[1])
    /\ db = {}
    /\ now = 0
    /\ last = Idle
    /\ mode = "none"
    /\ pc = "idle"
    /\ total = None
    /\ issued = <<>>
    /\ reqs = [s \in CapStarts |-> ReqIdle]
    /\ got = [s \in Starts |-> <<>>]
    /\ raised = ""

NextApiCap ==
    \/ FetchAllApi
    \/ RequestFails
    \/ RequestSucceeds
    \/ FetchApiFirst
    \/ FetchApiBatch

SpecApiCap == InitApiCap /\ [][NextApiCap]_vars

\* C39: fetch_all_api requests no batch at the offset MaxApiTotal or beyond:
\* the offsets requested are 0, step, 2 * step, ... below MaxApiTotal, at most
\* MaxApiTotal / step (rounded up) batches, whatever total the source
\* reports; a reported total above MaxApiTotal does not extend the pagination
C39_NoBatchBeyondCap ==
    (mode = "fetch_all_api") =>
        /\ \A i \in 1..Len(issued) : issued[i] = (i - 1) * step /\ issued[i] < MaxApiTotal
        /\ (Len(issued) - 1) * step < MaxApiTotal
        /\ \A s \in DOMAIN reqs : s >= MaxApiTotal => reqs[s] = ReqIdle

\* the source reports more than MaxApiTotal records, the last batch below
\* the cap came back full, and the fetch has ended
C39_Witness ==
    /\ mode = "fetch_all_api" /\ pc = "done"
    /\ total > MaxApiTotal
    /\ issued[Len(issued)] + step >= MaxApiTotal
    /\ reqs[issued[Len(issued)]].state = "body"
    /\ Len(parse_api_xml(Content(server, issued[Len(issued)]))) = step
    /\ last.outcome = "completed"

(***************************************************************************)
(* Accumulation of fetch_all (SpecFetchAll)                                *)
(***************************************************************************)
\* the records of the page at an offset as the source serves them; nothing
\* when the request of the page failed
SliceOf(start) ==
    IF reqs[start].state = "body" THEN PageRecords(start) ELSE <<>>

\* the slices of the pages at the given offsets, one after the other
RECURSIVE SlicesInOrder(_)
SlicesInOrder(offsets) ==
    IF offsets = <<>> THEN <<>>
    ELSE SliceOf(Head(offsets)) \o SlicesInOrder(Tail(offsets))

\* C22: in fetch_all the later pages are answered in any order; each answered
\* page contributes its own records, and the list accumulated at the end is
\* the slice of page 0, then the slices of the later pages in ascending
\* offset, each once
C22_SlicesInPageOrder ==
    (mode = "fetch_all" /\ pc \in {"rest", "done"}) =>
        /\ \A s \in Starts \ {0} : reqs[s].handled => got[s] = SliceOf(s)
        /\ (last.op = "fetch_all" /\ last.outcome = "completed") =>
              /\ last.accumulated = SlicesInOrder(OffsetSeq(0, total))
              /\ \A s \in OffsetRange(0, total) : reqs[s].handled

\* the last page was answered and parsed while an earlier one is in flight
C22_Witness ==
    /\ mode = "fetch_all" /\ pc = "rest"
    /\ reqs[step].state = "flying"
    /\ reqs[2 * step].handled /\ reqs[2 * step].state = "body"
    /\ got[2 * step] # <<>>

(***************************************************************************)
(* DateRule: next_arxiv_update_day on its own (SpecDateRule)               *)
(***************************************************************************)
\* the datetimes of the days 0..MaxRuleDay
RuleInputs == 0..(strptime_date(MaxRuleDay + 1) - 1)

\* one call of next_arxiv_update_day: it returns a value and changes nothing
NextArxivUpdateDay ==
    \E dt \in RuleInputs :
        /\ last' = [op |-> "next_arxiv_update_day", arg |-> dt,
                    ret |-> next_arxiv_update_day(dt)]
        /\ UNCHANGED <<fetchVars, botVars, papers, first_announced_date, db, now>>

InitDateRule ==
    /\ BotIdle
    /\ FetchIdle
    /\ papers = <<>>
    /\ first_announced_date = strptime_date(0)
    /\ db = {}
    /\ now = 0
    /\ last = Idle

NextDateRule == NextArxivUpdateDay

SpecDateRule == InitDateRule /\ [][NextDateRule]_vars

AddPapersInterrupted ==
    \E batch \in StoreBatches :
        \E n \in 0..(Len(batch) - 1) :
            LET r == add_papers_interrupted(db, batch, now, n)
            IN  /\ FirstNull(batch) = 0
                /\ r.now <= MaxClock
                /\ db' = r.db
                /\ now' = r.now
                /\ last' = [op |-> "add_papers", batch |-> batch, raised |-> r.raised,
                            pre |-> db, t0 |-> now, executed |-> n]
                /\ UNCHANGED <<fetchVars, botVars, papers, first_announced_date>>

NextTxn ==
    \/ AddPapers(StoreBatches)
    \/ AddPapersInterrupted

SpecTxn == InitStore /\ [][NextTxn]_vars

\* the table after every row of the batch of the last add_papers was written
AllApplied ==
    executemany(last.pre,
        [i \in 1..Len(last.batch) |-> InsertTuple(last.batch[i], last.t0 + i - 1)])

\* C25: after add_papers, finished or cut short, the store holds the rows it
\* held before with all rows of the batch applied or with none of them; a
\* call that did not finish leaves the store as it was
C25_AllOrNothing ==
    (last.op = "add_papers") =>
        /\ db = last.pre \/ db = AllApplied
        /\ last.raised # "" => db = last.pre
        /\ last.raised = "" => db = AllApplied

\* a batch of two rows was cut short after its first row, over a store that
\* held a row of the same URL
C25_Witness ==
    /\ last.op = "add_papers" /\ last.raised = "interrupted"
    /\ last.executed = 1 /\ Len(last.batch) = 2
    /\ \E r \in last.pre : r.url = last.batch[1].url /\ r.title # last.batch[1].title
    /\ db = last.pre

(***************************************************************************)
(* Writing a record and reading it back (SpecRoundTrip)                    *)
(***************************************************************************)
RoundTripURLs == <<"u1", "u2">>

\* records submitted on day 1 and announced on day 2 at midnight, with no
\* tag, one tag or two tags
RoundTripPool ==
    {Paper(RoundTripURLs[u], title, T_x, categories, strptime_date(1), strptime_date(2)) :
        u \in 1..Len(RoundTripURLs), title \in {T_ab, T_x},
        categories \in {<<>>, <<"cs.LG">>, <<"cs.LG", "stat.ML">>}}

RoundTripBatches == SeqsUpTo(RoundTripPool, MaxBatch)

\* PaperDatabase.fetch_all: SELECT * FROM papers ORDER BY url DESC, every row
\* turned into a Paper by the row factory
fetch_all_rows(table) ==
    LET stored == SelectSeq(Reverse(RoundTripURLs), LAMBDA u : \E r \in table : r.url = u)
    IN  [i \in 1..Len(stored) |-> from_row(CHOOSE r \in table : r.url = stored[i])]

FetchAllRows ==
    /\ last' = [op |-> "PaperDatabase.fetch_all", ret |-> fetch_all_rows(db),
                after |-> IF last.op = "add_papers" THEN last ELSE Idle]
    /\ UNCHANGED <<fetchVars, botVars, papers, first_announced_date, db, now>>

NextRoundTrip ==
    \/ AddPapers(RoundTripBatches)
    \/ FetchAllRows

SpecRoundTrip == InitStore /\ [][NextRoundTrip]_vars

\* the record of the batch that is written last for its URL
WrittenLast(batch, i) == \A j \in (i + 1)..Len(batch) : batch[j].url # batch[i].url

\* C27: when add_papers has written a batch and the rows are read back, the
\* record read for a URL equals the record written for it field by field:
\* URL, title, abstract, category list in the same order, submitted day and
\* announced day
C27_SchemaRoundTrips ==
    (last.op = "PaperDatabase.fetch_all" /\ last.after.op = "add_papers"
        /\ last.after.raised = "") =>
        \A i \in 1..Len(last.after.batch) :
            WrittenLast(last.after.batch, i) =>
                \E k \in 1..Len(last.ret) :
                    LET w == last.after.batch[i]
                        r == last.ret[k]
                    IN  /\ r.url = w.url
                        /\ r.title = w.title
                        /\ r.abstract = w.abstract
                        /\ r.categories = w.categories
                        /\ strftime_date(r.first_submitted_date)
                              = strftime_date(w.first_submitted_date)
                        /\ strftime_date(r.first_announced_date)
                              = strftime_date(w.first_announced_date)

(***************************************************************************)
(* ChatManager: the configuration of each chat (SpecChat)                  *)
(***************************************************************************)
\* the chats that send commands; "default" is no chat id of the platform
ChatIds == {"oc_1", "oc_2"}

\* mutant: a chat that has a configuration keeps it
add_chat_config_setdefault(configs, chat_id, config) ==
    IF chat_id \in DOMAIN configs THEN configs
    ELSE [k \in DOMAIN configs \cup {chat_id} |->
             IF k = chat_id THEN config ELSE configs[k]]

\* ChatManager.add_chat_config: self.chat_config[chat_id] = config
add_chat_config(configs, chat_id, config) ==
    [k \in DOMAIN configs \cup {chat_id} |-> IF k = chat_id THEN config ELSE configs[k]]

\* ChatManager.add_chat_config: a chat without a paper list gets an empty one
add_chat_papers(lists, chat_id) ==
    IF chat_id \in DOMAIN lists THEN lists
    ELSE [k \in DOMAIN lists \cup {chat_id} |->
             IF k = chat_id THEN ChatPapers ELSE lists[k]]

\* ChatManager.get_chat_config: the chat's own entry, else the default one
get_chat_config(configs, chat_id) ==
    IF chat_id \in DOMAIN configs THEN configs[chat_id] ELSE configs["default"]

\* what handle_config_command extracts from a command text: whether anything
\* follows "/config", the list after required: and the groups after optional:
ConfigCommands ==
    {[args |-> FALSE, required |-> <<>>, optional |-> <<>>]}
    \cup [args : {TRUE}, required : RequiredArgs, optional : OptionalArgs]

\* handle_config_command: "/config" alone returns at once; any other command
\* replaces the configuration of the chat by a new ChatConfig
HandleConfigCommand ==
    \E chat_id \in ChatIds, command \in ConfigCommands :
        LET new_config == ChatConfig(chat_id, command.required, command.optional)
        IN  /\ chat_config' = IF command.args
                              THEN add_chat_config(chat_config, chat_id, new_config)
                              ELSE chat_config
            /\ chat_papers' = IF command.args
                              THEN add_chat_papers(chat_papers, chat_id)
                              ELSE chat_papers
            /\ last' = [op |-> "handle_config_command", chat_id |-> chat_id,
                        command |-> command, pre |-> chat_config,
                        configured |-> IF command.args
                                       THEN [k \in DOMAIN last.configured \cup {chat_id}
                                               |-> IF k = chat_id THEN new_config
                                                   ELSE last.configured[k]]
                                       ELSE last.configured]
            /\ UNCHANGED <<fetchVars, papers, first_announced_date, db, now, threads,
                           call>>

GetChatConfig ==
    \E chat_id \in ChatIds :
        /\ last' = [op |-> "get_chat_config", chat_id |-> chat_id,
                    ret |-> get_chat_config(chat_config, chat_id),
                    configured |-> last.configured]
        /\ UNCHANGED <<fetchVars, botVars, papers, first_announced_date, db, now>>

\* ChatManager.__init__; last.configured keeps, for every chat, the
\* configuration its latest command asked for
InitChat ==
    /\ BotIdle
    /\ FetchIdle
    /\ papers = <<>>
    /\ first_announced_date = strptime_date(0)
    /\ db = {}
    /\ now = 0
    /\ last = [op |-> "none", configured |-> <<>>]

NextChat ==
    \/ HandleConfigCommand
    \/ GetChatConfig

SpecChat == InitChat /\ [][NextChat]_vars

\* C26: get_chat_config(c) returns what the latest configuring command of c
\* asked for, as a whole, and the default configuration when c was never
\* configured; a command removes no configuration and leaves what every
\* other chat gets unchanged
C26_LastConfigWins ==
    /\ (last.op = "get_chat_config") =>
          last.ret = IF last.chat_id \in DOMAIN last.configured
                     THEN last.configured[last.chat_id]
                     ELSE DefaultConfig
    /\ (last.op = "handle_config_command") =>
          /\ DOMAIN last.pre \subseteq DOMAIN chat_config
          /\ \A c \in (ChatIds \cup {"default"}) \ {last.chat_id} :
                get_chat_config(chat_config, c) = get_chat_config(last.pre, c)
          /\ last.command.args =>
                get_chat_config(chat_config, last.chat_id)
                    = ChatConfig(last.chat_id, last.command.required,
                                 last.command.optional)

\* a chat that had a configuration was given another one while the other
\* chat had its own
C26_Witness ==
    /\ last.op = "handle_config_command" /\ last.command.args
    /\ last.chat_id \in DOMAIN last.pre
    /\ last.pre[last.chat_id] # chat_config[last.chat_id]
    /\ \E c \in ChatIds \ {last.chat_id} : c \in DOMAIN chat_config

(***************************************************************************)
(* get_daily_llm_papers: the store first, then one fetch (SpecDaily)       *)
(***************************************************************************)
WeekDays == 7

\* mutant: the rows found in the store are never returned
cache_hit_never(existing_papers) == FALSE

\* `if existing_papers:`
cache_hit(existing_papers) == existing_papers # <<>>

\* the arguments of the call and the store it met
CalledWith(state, use_api, required_keywords) ==
    [state |-> state, use_api |-> use_api, required_keywords |-> required_keywords,
     optional_keywords |-> <<>>, pre |-> db]

\* last_update and last_update >= week_ago
recently_updated(last_update, date_from) ==
    utc_datetime(last_update) >= strptime_date(date_from) - timedelta(WeekDays)

\* get_daily_llm_papers up to its first await or its return: the search of
\* the store, then the construction of the scraper and the start of the
\* fetch it chooses
GetDailyLlmPapers ==
    \E use_api \in BOOLEAN, required_keywords \in {<<K_x>>, <<K_ab>>} :
    \E existing_papers \in search_papers_by_keywords(db, required_keywords, <<>>,
                                                     window[1], window[2], None) :
        /\ call.state = "none"
        /\ UNCHANGED <<chat_config, chat_papers, threads>>
        /\ IF cache_hit(existing_papers)
           THEN /\ call' = CalledWith("returned", use_api, required_keywords)
                               @@ [ret |-> existing_papers, source |-> "store"]
                /\ UNCHANGED <<papers, first_announced_date, db, now, last, fetchVars>>
           ELSE IF use_api
           THEN /\ call' = CalledWith("fetching", use_api, required_keywords)
                /\ StartFetchAllApi
           ELSE LET last_update == newest_update_time(db)
                IN  IF last_update.raised # ""
                    THEN /\ call' = CalledWith("raised", use_api, required_keywords)
                                       @@ [raised |-> last_update.raised]
                         /\ UNCHANGED <<papers, first_announced_date, db, now, last,
                                        fetchVars>>
                    ELSE /\ call' = CalledWith("fetching", use_api, required_keywords)
                         /\ IF recently_updated(last_update.value, window[1])
                            THEN StartFetchUpdate
                            ELSE StartFetchAll

\* what get_daily_llm_papers can return after its fetch: the records of the
\* scraper, or else the rows of the store in the range, or else, for a single
\* day, the rows of the range widened by PREV_DAY days. The widened lower
\* bound is passed as a datetime: its text 'YYYY-MM-DD 00:00:00' sorts after
\* the DATE text of the same day, so the first day of the widened range is
\* left out.
daily_result(table, ps, required_keywords, optional_keywords, win) ==
    LET target_papers == search_papers_by_keywords(table, required_keywords,
                             optional_keywords, win[1], win[2], None)
    IN  IF ps # <<>> THEN {ps}
        ELSE IF target_papers = {<<>>} /\ win[1] = win[2]
        THEN search_papers_by_keywords(table, required_keywords, optional_keywords,
                                       win[1] - PREV_DAY + 1, win[2], None)
        ELSE target_papers

\* get_daily_llm_papers after its fetch has ended
GetDailyReturns ==
    /\ call.state = "fetching" /\ pc \in {"done", "raised"}
    /\ IF pc = "raised"
       THEN call' = [call EXCEPT !.state = "raised"] @@ [raised |-> raised]
       ELSE \E ret \in daily_result(db, papers, call.required_keywords,
                                    call.optional_keywords, window) :
                call' = [call EXCEPT !.state = "returned"]
                           @@ [ret |-> ret,
                               source |-> IF papers # <<>> THEN "fetch" ELSE "store"]
    /\ UNCHANGED <<chat_config, chat_papers, threads, papers, first_announced_date, db,
                   now, last, fetchVars>>

\* the entries the source holds: all of one kind, submitted on day 16 or
\* carrying a text that is no date
DailyEntry(i, kind) ==
    Entry(ToString(i), IF kind = "nodate" THEN None ELSE 16,
          IF kind = "mixed" THEN <<"cs.LG", "stat.ML">> ELSE <<"cs.LG">>)

\* a row an earlier run has stored
DailyRow(url, day) ==
    InsertTuple(Paper(url, T_x, T_x, <<"cs.LG">>, strptime_date(day - 1),
                      strptime_date(day)), 0)

\* the store the call meets: empty, the first entry of the source announced
\* on day 16, or an old row
DailyStores == {{}, {DailyRow("1", 16)}, {DailyRow("0", 3)}}

\* the requested single day: a week after the last update of the store, or
\* one day more
DailyWindows == {<<16, 16>>, <<17, 17>>}

InitDaily ==
    /\ chat_config = [k \in {"default"} |-> DefaultConfig]
    /\ chat_papers = [k \in {"default"} |-> ChatPapers]
    /\ threads = <<>>
    /\ call = CallIdle
    /\ \E n \in {0, step + 1} : \E kind \in {"cs", "mixed", "nodate"} :
       \E header \in {"ok", "missing"} :
          server = [results |-> [i \in 1..n |-> DailyEntry(i, kind)], header |-> header]
    /\ window \in DailyWindows
    /\ db \in DailyStores
    /\ papers = <<>>
    /\ first_announced_date = strptime_date(window[1])
    /\ now = 1
    /\ last = Idle
    /\ mode = "none"
    /\ pc = "idle"
    /\ total = None
    /\ issued = <<>>
    /\ reqs = [s \in Starts |-> ReqIdle]
    /\ got = [s \in Starts |-> <<>>]
    /\ raised = ""

NextDaily ==
    \/ GetDailyLlmPapers
    \/ RequestFails
    \/ RequestSucceeds
    \/ FetchAllFirst
    \/ FetchAllWrapper
    \/ FetchAllFinish
    \/ FetchApiFirst
    \/ FetchApiBatch
    \/ FetchUpdateFirst
    \/ FetchUpdatePage
    \/ GetDailyReturns

SpecDaily == InitDaily /\ [][NextDaily]_vars

\* the event loop runs whatever is ready, and every attempt of a request
\* ends within its timeout
FairDaily == SpecDaily /\ WF_vars(NextDaily)

\* the rows of a store that match the keywords of the call inside the window
Matching(table) ==
    {r \in table : WhereClause(r, call.required_keywords, call.optional_keywords,
                               window[1], window[2])}

NoRequest ==
    /\ mode = "none" /\ pc = "idle"
    /\ issued = <<>>
    /\ \A s \in Starts : reqs[s] = ReqIdle

\* C29: when the store holds a row that matches the keywords inside the
\* requested range, get_daily_llm_papers returns exactly the matching rows,
\* no request is issued and the store is as it was
C29_CachedRowsReturned ==
    (call.state # "none" /\ Matching(call.pre) # {}) =>
        /\ call.state = "returned" /\ call.source = "store"
        /\ {call.ret[i] : i \in 1..Len(call.ret)} = {from_row(r) : r \in Matching(call.pre)}
        /\ Len(call.ret) = Cardinality(Matching(call.pre))
        /\ NoRequest
        /\ db = call.pre

\* the call found the stored row of day 16 and returned it
C29_Witness ==
    /\ call.state = "returned" /\ call.source = "store"
    /\ call.pre = {DailyRow("1", 16)}
    /\ Len(call.ret) = 1 /\ call.ret[1].url = "1"
    /\ NoRequest

\* C30: in web-scrape mode without a cached match the call runs one fetch:
\* fetch_update when the newest update time of the store is at or after
\* date_from minus WeekDays days, fetch_all otherwise, a store without rows
\* included
C30_OneFetchByRecency ==
    (call.state # "none" /\ ~call.use_api /\ Matching(call.pre) = {}) =>
        mode = IF call.pre # {} /\
                  recently_updated(newest_update_time(call.pre).value, window[1])
               THEN "fetch_update"
               ELSE "fetch_all"

\* C23: the offsets a fetch asks for increase strictly, and every fetch that
\* was started ends: it returns or raises
C23_FetchEnds ==
    /\ [](\A i \in 1..(Len(issued) - 1) : issued[i] < issued[i + 1])
    /\ [](mode # "none" => <>(pc \in {"done", "raised"}))

\* a fetch has ended after a page request that failed after all its retries
\* and another page that was answered
C23_Witness ==
    /\ mode # "none" /\ pc = "done"
    /\ Len(issued) >= 2
    /\ \E s \in Starts : reqs[s].state = "none"
    /\ \E s \in Starts : reqs[s].state = "body"

(***************************************************************************)
(* The threads that run the fetch-and-upsert workflow (SpecWorkflows)      *)
(***************************************************************************)
MaxThreads == 3        \* threads started in one run of the model

\* the day every workflow of the run asks for
WorkflowDay == 16

\* what a fetch brings back: nothing, or a paper the default keywords match
WorkflowPaper ==
    Paper("w1", K_agent, K_research, <<"cs.LG">>, strptime_date(WorkflowDay - 1),
          strptime_date(WorkflowDay))

WorkflowBatches == {<<>>, <<WorkflowPaper>>}

\* threading.Thread(target=run_async_task); thread.start()
ThreadStarted(kind, chat_id) == [kind |-> kind, chat_id |-> chat_id, state |-> "started"]

\* mutant: the cursor of the chat is kept
set_chat_papers_keep_index(lists, chat_id, ps, clock) ==
    [k \in DOMAIN lists \cup {chat_id} |->
        IF k = chat_id
        THEN [papers |-> ps, last_update |-> clock,
              current_index |-> IF k \in DOMAIN lists THEN lists[k].current_index ELSE 0]
        ELSE lists[k]]

\* update_papers_for_chat after get_daily_llm_papers returned
set_chat_papers(lists, chat_id, ps, clock) ==
    [k \in DOMAIN lists \cup {chat_id} |->
        IF k = chat_id THEN [papers |-> ps, last_update |-> clock, current_index |-> 0]
        ELSE lists[k]]

\* the message handler on "/daily_arxiv": a new thread runs the workflow
\* for the chat, whatever other threads are running
DailyArxivCommandIn(chats) ==
    \E chat_id \in chats :
        /\ Len(threads) < MaxThreads
        /\ threads' = Append(threads, ThreadStarted("command", chat_id))
        /\ UNCHANGED <<fetchVars, papers, first_announced_date, db, now, last,
                       chat_config, chat_papers, call>>

DailyArxivCommand == DailyArxivCommandIn(ChatIds)

\* the scheduled job send_daily_papers: it starts a thread and returns
SendDailyPapers ==
    /\ Len(threads) < MaxThreads
    /\ threads' = Append(threads, ThreadStarted("scheduled", "default"))
    /\ UNCHANGED <<fetchVars, papers, first_announced_date, db, now, last,
                   chat_config, chat_papers, call>>

\* a thread's update_papers_for_chat up to the first await of
\* get_daily_llm_papers: the rows of the store are returned when there are
\* any, else a fetch is started
WorkflowQueriesStore ==
    \E i \in 1..Len(threads) :
        LET config == get_chat_config(chat_config, threads[i].chat_id)
        IN  \E existing_papers \in search_papers_by_keywords(db, config.required_keywords,
                    config.optional_keywords, WorkflowDay, WorkflowDay, None) :
                /\ threads[i].state = "started"
                /\ IF cache_hit(existing_papers)
                   THEN /\ threads' = [threads EXCEPT ![i].state = "done"]
                        /\ chat_papers' = set_chat_papers(chat_papers, threads[i].chat_id,
                                                          existing_papers, now)
                   ELSE /\ threads' = [threads EXCEPT ![i].state = "fetching"]
                        /\ UNCHANGED chat_papers
                /\ UNCHANGED <<fetchVars, papers, first_announced_date, db, now, last,
                               chat_config, call>>

\* a thread's fetch ends: what it accepted is upserted, get_daily_llm_papers
\* returns and update_papers_for_chat stores the list of the chat
WorkflowUpserts ==
    \E i \in 1..Len(threads), batch \in WorkflowBatches :
        LET config == get_chat_config(chat_config, threads[i].chat_id)
            r == add_papers(db, batch, now, FALSE)
        IN  \E ret \in daily_result(r.db, batch, config.required_keywords,
                                    config.optional_keywords,
                                    <<WorkflowDay, WorkflowDay>>) :
                /\ threads[i].state = "fetching"
                /\ db' = r.db
                /\ now' = r.now
                /\ threads' = [threads EXCEPT ![i].state = "done"]
                /\ chat_papers' = set_chat_papers(chat_papers, threads[i].chat_id, ret,
                                                  r.now)
                /\ last' = [op |-> "workflow", thread |-> i, pre |-> db, written |-> batch]
                /\ UNCHANGED <<fetchVars, papers, first_announced_date, chat_config, call>>

InitWorkflows ==
    /\ BotIdle
    /\ FetchIdle
    /\ papers = <<>>
    /\ first_announced_date = strptime_date(WorkflowDay)
    /\ db = {}
    /\ now = 0
    /\ last = Idle

NextWorkflows ==
    \/ DailyArxivCommand
    \/ SendDailyPapers
    \/ WorkflowQueriesStore
    \/ WorkflowUpserts

SpecWorkflows == InitWorkflows /\ [][NextWorkflows]_vars

\* the threads whose workflow has started and has not ended
InProgress == {i \in 1..Len(threads) : threads[i].state \in {"started", "fetching"}}

\* C24: at any time at most one fetch-and-upsert workflow is in progress
C24_SingleWriter == Cardinality(InProgress) <= 1

(***************************************************************************)
(* get_daily_llm_papers on a store without rows                            *)
(***************************************************************************)
\* C31: a web-scrape call on a store without rows does not raise: it takes
\* the newest update time as absent and runs fetch_all
C31_EmptyStoreFullFetch ==
    (call.state # "none" /\ ~call.use_api /\ call.pre = {}) =>
        /\ mode = "fetch_all"
        /\ ~(call.state = "raised" /\ call.raised = "AttributeError")

(***************************************************************************)
(* The month window of the constructor (SpecWindow)                        *)
(***************************************************************************)
\* the year of day 0: 2024-01-01 is a Monday
Year0 == 2024

\* a date "YYYY-MM-DD", and a datetime at midnight, as year, month and day
Date(y, m, d) == <<y, m, d>>

YearOf(d) == d[1]

MonthOf(d) == d[2]

DayOfMonth(d) == d[3]

IsLeap(y) == (y % 4 = 0 /\ y % 100 # 0) \/ y % 400 = 0

DaysInMonth(y, m) ==
    IF m = 2 THEN (IF IsLeap(y) THEN 29 ELSE 28)
    ELSE IF m \in {4, 6, 9, 11} THEN 30 ELSE 31

RECURSIVE DaysBeforeMonth(_, _)
DaysBeforeMonth(y, m) ==
    IF m = 1 THEN 0
    ELSE DaysBeforeMonth(y, m - 1) + DaysInMonth(y, m - 1)

RECURSIVE DaysBeforeYear(_)
DaysBeforeYear(y) ==
    IF y = Year0 THEN 0
    ELSE DaysBeforeYear(y - 1) + (IF IsLeap(y - 1) THEN 366 ELSE 365)

\* the calendar day number of a date
toordinal(d) ==
    DaysBeforeYear(YearOf(d)) + DaysBeforeMonth(YearOf(d), MonthOf(d)) + DayOfMonth(d) - 1

\* the date of the n-th day counted from the first of a month, n >= 1
RECURSIVE from_day_of_month(_, _, _)
from_day_of_month(y, m, n) ==
    IF n <= DaysInMonth(y, m) THEN Date(y, m, n)
    ELSE IF m = 12 THEN from_day_of_month(y + 1, 1, n - DaysInMonth(y, m))
    ELSE from_day_of_month(y, m + 1, n - DaysInMonth(y, m))

\* datetime + timedelta(days), days >= 0
plus_days(d, days) == from_day_of_month(YearOf(d), MonthOf(d), DayOfMonth(d) + days)

\* datetime.strptime(text[:-3], "%Y-%m"): the day is cut off and reads as 1
strptime_month(d) == Date(YearOf(d), MonthOf(d), 1)

\* self.search_from_date.month == self.search_until_date.month
same_month(a, b) == MonthOf(a) = MonthOf(b)

\* the window of ArxivScraper.__init__: the months of the two dates, the
\* month after date_from's when the month numbers are equal
search_window(date_from, date_until) ==
    LET search_from_date == strptime_month(date_from)
        search_until_date == strptime_month(date_until)
    IN  [search_from_date |-> search_from_date,
         search_until_date |->
             IF same_month(search_from_date, search_until_date)
             THEN [plus_days(search_from_date, 31) EXCEPT ![3] = 1]
             ELSE search_until_date]

\* get_url: strftime("%Y-%m") of the two ends of the window
url_months(w) ==
    [from_date |-> <<YearOf(w.search_from_date), MonthOf(w.search_from_date)>>,
     to_date |-> <<YearOf(w.search_until_date), MonthOf(w.search_until_date)>>]

\* the dates a scraper is constructed with
WindowDates == (Year0..(Year0 + MaxYears - 1)) \X (1..12) \X {1, 15, 28}

\* ArxivScraper(date_from, date_until) followed by get_url; the constructor
\* runs once for a scraper
ConstructScraper ==
    \E date_from \in WindowDates, date_until \in WindowDates :
        /\ last = Idle
        /\ toordinal(date_from) <= toordinal(date_until)
        /\ \E w \in {search_window(date_from, date_until)} :
            /\ first_announced_date' =
                  next_arxiv_update_day(
                      next_arxiv_update_day(strptime_date(toordinal(w.search_from_date)))
                      + timedelta(1))
            /\ last' = [op |-> "ArxivScraper.__init__", date_from |-> date_from,
                        date_until |-> date_until, window |-> w, url |-> url_months(w)]
            /\ UNCHANGED <<fetchVars, botVars, papers, db, now>>

InitWindow ==
    /\ BotIdle
    /\ FetchIdle
    /\ papers = <<>>
    /\ first_announced_date = None
    /\ db = {}
    /\ now = 0
    /\ last = Idle

NextWindow == ConstructScraper

SpecWindow == InitWindow /\ [][NextWindow]_vars

\* C32: the window reaches from the month of date_from to the month of
\* date_until: search_until_date is not before the first day of date_until's
\* month, whatever the years of the two dates
C32_WindowCoversMonths ==
    (last.op = "ArxivScraper.__init__") =>
        /\ toordinal(last.window.search_from_date) <= toordinal(last.date_from)
        /\ toordinal(last.window.search_until_date)
              >= toordinal(strptime_month(last.date_until))

(***************************************************************************)
(* Announcement and submission days of the rows a fetch writes             *)
(***************************************************************************)
\* the rows written since get_daily_llm_papers was called
WrittenRows == IF call.state = "none" THEN {} ELSE db \ call.pre

K_a == <<"a">>
K_b == <<"b">>

\* the keywords of the configurations
QueryKeywords == <<K_a, K_b, K_x>>

\* the optional groups: up to MaxGroupLen keywords, none of them twice
QueryGroups ==
    {[i \in 1..Len(g) |-> QueryKeywords[g[i]]] :
        g \in {f \in SeqsUpTo(1..Len(QueryKeywords), MaxGroupLen) :
                  \A i \in 1..Len(f) : \A j \in 1..Len(f) : i < j => f[i] < f[j]}}

\* the records at the source and in the store: every combination of the
\* keywords over title and abstract
QueryPapers ==
    {Paper("q1", title, abstract, <<"cs.LG">>, strptime_date(1), strptime_date(2)) :
        title \in {<<>>, K_a, K_b, <<"a", "z", "b">>}, abstract \in {<<"z">>, K_x}}

\* get_url: the terms in the order they are appended, each with its operator
RECURSIVE group_terms(_, _)
group_terms(keyword_group, i) ==
    IF i > Len(keyword_group) THEN <<>>
    ELSE <<[operator |-> IF i = 1 THEN "AND" ELSE "OR", term |-> keyword_group[i]]>>
         \o group_terms(keyword_group, i + 1)

RECURSIVE optional_terms(_)
optional_terms(optional_keywords) ==
    IF optional_keywords = <<>> THEN <<>>
    ELSE group_terms(Head(optional_keywords), 1) \o optional_terms(Tail(optional_keywords))

get_url(required_keywords, optional_keywords) ==
    [i \in 1..Len(required_keywords) |-> [operator |-> "AND", term |-> required_keywords[i]]]
    \o optional_terms(optional_keywords)

\* the search form applies the terms one after the other: each operator joins
\* what the terms before it gave with its own term
RECURSIVE eval_terms(_, _, _)
eval_terms(terms, row, acc) ==
    IF terms = <<>> THEN acc
    ELSE eval_terms(Tail(terms), row,
                    IF Head(terms).operator = "AND"
                    THEN acc /\ FieldConditions(row, Head(terms).term)
                    ELSE acc \/ FieldConditions(row, Head(terms).term))

\* get_api_url: one parenthesised part for every non-empty optional group and
\* for every required keyword, the parts joined by AND
get_api_url(required_keywords, optional_keywords) ==
    SelectSeq(optional_keywords, LAMBDA keyword_group : keyword_group # <<>>)
    \o [i \in 1..Len(required_keywords) |-> <<required_keywords[i]>>]

\* the programmatic query: every part has a keyword in the title or abstract
eval_parts(query_parts, row) ==
    \A p \in 1..Len(query_parts) :
        \E k \in 1..Len(query_parts[p]) : FieldConditions(row, query_parts[p][k])

\* the keyword configuration and which of the three queries have been built
Queries(required_keywords, optional_keywords) ==
    [op |-> "queries", required_keywords |-> required_keywords,
     optional_keywords |-> optional_keywords, built |-> {},
     url |-> <<>>, url_match |-> FALSE, api_match |-> FALSE, store_match |-> FALSE]

\* get_url, and the answer of the search form for the record at the source
GetUrl ==
    /\ last.op = "queries" /\ "get_url" \notin last.built
    /\ \E terms \in {get_url(last.required_keywords, last.optional_keywords)} :
          last' = [last EXCEPT !.built = @ \cup {"get_url"}, !.url = terms,
                               !.url_match = \E row \in db : eval_terms(terms, row, TRUE)]
    /\ UNCHANGED <<fetchVars, botVars, papers, first_announced_date, db, now>>

\* get_api_url, and the answer of the programmatic interface
GetApiUrl ==
    /\ last.op = "queries" /\ "get_api_url" \notin last.built
    /\ \E parts \in {get_api_url(last.required_keywords, last.optional_keywords)} :
          last' = [last EXCEPT !.built = @ \cup {"get_api_url"},
                               !.api_match = \E row \in db : eval_parts(parts, row)]
    /\ UNCHANGED <<fetchVars, botVars, papers, first_announced_date, db, now>>

\* search_papers_by_keywords without a date range
SearchStore ==
    /\ last.op = "queries" /\ "search" \notin last.built
    /\ \E result \in search_papers_by_keywords(db, last.required_keywords,
                                               last.optional_keywords, None, None, None) :
          last' = [last EXCEPT !.built = @ \cup {"search"},
                               !.store_match = (result # <<>>)]
    /\ UNCHANGED <<fetchVars, botVars, papers, first_announced_date, db, now>>

InitQuery ==
    /\ BotIdle
    /\ FetchIdle
    /\ papers = <<>>
    /\ first_announced_date = None
    /\ \E p \in QueryPapers : db = {InsertTuple(p, 0)}
    /\ now = 1
    /\ \E required_keywords \in SeqsUpTo({K_a}, 1) :
       \E optional_keywords \in SeqsUpTo(QueryGroups, MaxGroups) :
          last = Queries(required_keywords, optional_keywords)

NextQuery ==
    \/ GetUrl
    \/ GetApiUrl
    \/ SearchStore

SpecQuery == InitQuery /\ [][NextQuery]_vars

\* the optional groups that hold a keyword
NonEmptyGroups(optional_keywords) ==
    {g \in 1..Len(optional_keywords) : optional_keywords[g] # <<>>}

\* C34: for a configuration with two or more optional groups the search
\* form's answer to the flat list of terms is the answer of the programmatic
\* query and of the store filter: all required keywords and one keyword of
\* every non-empty group
C34_FlatQueryIsGrouped ==
    (/\ last.op = "queries"
     /\ last.built = {"get_url", "get_api_url", "search"}
     /\ Cardinality(NonEmptyGroups(last.optional_keywords)) >= 2) =>
        /\ last.url_match = last.api_match
        /\ last.url_match = last.store_match

(***************************************************************************)
(* The paper list of a chat, one call at a time (SpecPapers)               *)
(***************************************************************************)
\* the chats whose paper list is used
CardChats == {"oc_1"}

\* the store of the bot: one row for each of the MaxStored days that end
\* with WorkflowDay, every row matching the default keywords
PaperStore ==
    {InsertTuple(Paper(ToString(i), K_agent, K_research, <<"cs.LG">>,
                       strptime_date(WorkflowDay - i), strptime_date(WorkflowDay - i + 1)), 0) :
        i \in 1..MaxStored}

\* the date ranges a list is asked for: all the days of the store, its last
\* day, and the day after
UpdateWindows ==
    {<<WorkflowDay - MaxStored + 1, WorkflowDay>>, <<WorkflowDay, WorkflowDay>>,
     <<WorkflowDay + 1, WorkflowDay + 1>>}

\* get_daily_llm_papers as one step of its caller: the rows of the range when
\* there are any, else a fetch, the upsert of what it accepted and the result
daily_papers(table, clock, config, win) ==
    LET after_fetch(batch) ==
            LET r == add_papers(table, batch, clock, FALSE)
            IN  {[db |-> r.db, now |-> r.now, ret |-> ret] :
                    ret \in daily_result(r.db, batch, config.required_keywords,
                                         config.optional_keywords, win)}
        after_query(existing_papers) ==
            IF cache_hit(existing_papers)
            THEN {[db |-> table, now |-> clock, ret |-> existing_papers]}
            ELSE UNION {after_fetch(batch) : batch \in WorkflowBatches}
    IN  UNION {after_query(existing_papers) :
                  existing_papers \in search_papers_by_keywords(table,
                      config.required_keywords, config.optional_keywords,
                      win[1], win[2], None)}

\* ChatManager.get_chat_papers: a chat without a paper list gets an empty one
get_chat_papers(lists, chat_id) == add_chat_papers(lists, chat_id)

\* mutant: the cursor moves on without wrapping
get_next_paper_nowrap(lists, chat_id) ==
    LET with_chat == get_chat_papers(lists, chat_id)
        chat == with_chat[chat_id]
        next == chat.current_index + 1
    IN  IF chat.papers = <<>>
        THEN [chat_papers |-> with_chat, paper |-> None, index |-> None, raised |-> ""]
        ELSE IF next >= Len(chat.papers)
        THEN [chat_papers |-> [with_chat EXCEPT ![chat_id].current_index = next],
              paper |-> None, index |-> None, raised |-> "IndexError"]
        ELSE [chat_papers |-> [with_chat EXCEPT ![chat_id].current_index = next],
              paper |-> chat.papers[next + 1], index |-> next, raised |-> ""]

\* ChatManager.get_next_paper; a Python index i is the place i + 1 of the
\* sequence
get_next_paper(lists, chat_id) ==
    LET with_chat == get_chat_papers(lists, chat_id)
        chat == with_chat[chat_id]
        next == (chat.current_index + 1) % Len(chat.papers)
    IN  IF chat.papers = <<>>
        THEN [chat_papers |-> with_chat, paper |-> None, index |-> None, raised |-> ""]
        ELSE [chat_papers |-> [with_chat EXCEPT ![chat_id].current_index = next],
              paper |-> chat.papers[next + 1], index |-> next, raised |-> ""]

\* ChatManager.get_random_paper with random.randint giving random_index
get_random_paper(lists, chat_id, random_index) ==
    LET with_chat == get_chat_papers(lists, chat_id)
        chat == with_chat[chat_id]
    IN  IF chat.papers = <<>>
        THEN [chat_papers |-> with_chat, paper |-> None, index |-> None, raised |-> ""]
        ELSE [chat_papers |-> [with_chat EXCEPT ![chat_id].current_index = random_index],
              paper |-> chat.papers[random_index + 1], index |-> random_index,
              raised |-> ""]

\* the run of consecutive get_next_paper calls on one chat that the call
\* recorded in rec extends: the cursor it started from and its length so far
Streak(rec, chat_id, chat) ==
    IF rec.op = "get_next_paper" /\ rec.chat_id = chat_id /\ rec.streak < Len(chat.papers)
    THEN [start |-> rec.start, streak |-> rec.streak + 1]
    ELSE [start |-> chat.current_index, streak |-> 1]

\* update_papers_for_chat, run to its end before anything else happens
UpdatePapersForChat ==
    \E chat_id \in CardChats, win \in UpdateWindows :
        \E d \in daily_papers(db, now, get_chat_config(chat_config, chat_id), win) :
            /\ d.now <= MaxClock
            /\ db' = d.db
            /\ now' = d.now
            /\ chat_papers' = set_chat_papers(chat_papers, chat_id, d.ret, d.now)
            /\ last' = [op |-> "update_papers_for_chat", chat_id |-> chat_id,
                        ret |-> d.ret]
            /\ UNCHANGED <<fetchVars, papers, first_announced_date, chat_config,
                           threads, call>>

\* the card action "next_article": get_next_paper for the chat of the card
GetNextPaper ==
    \E chat_id \in CardChats :
        \E r \in {get_next_paper(chat_papers, chat_id)} :
            /\ chat_papers' = r.chat_papers
            /\ last' = [op |-> "get_next_paper", chat_id |-> chat_id,
                        known |-> chat_id \in DOMAIN chat_papers,
                        same |-> r.chat_papers = chat_papers,
                        pre |-> get_chat_papers(chat_papers, chat_id)[chat_id],
                        paper |-> r.paper, index |-> r.index, raised |-> r.raised]
                       @@ Streak(last, chat_id, get_chat_papers(chat_papers, chat_id)[chat_id])
            /\ UNCHANGED <<fetchVars, papers, first_announced_date, db, now,
                           chat_config, threads, call>>

\* get_random_paper for a chat
GetRandomPaper ==
    \E chat_id \in CardChats :
        \E random_index \in 0..(Len(get_chat_papers(chat_papers, chat_id)[chat_id].papers) - 1) :
            \E r \in {get_random_paper(chat_papers, chat_id, random_index)} :
                /\ chat_papers' = r.chat_papers
                /\ last' = [op |-> "get_random_paper", chat_id |-> chat_id,
                            paper |-> r.paper, index |-> r.index]
                /\ UNCHANGED <<fetchVars, papers, first_announced_date, db, now,
                               chat_config, threads, call>>

InitPapers ==
    /\ BotIdle
    /\ FetchIdle
    /\ papers = <<>>
    /\ first_announced_date = strptime_date(WorkflowDay)
    /\ db \in {{}, PaperStore}
    /\ now = 1
    /\ last = Idle

NextPapers ==
    \/ UpdatePapersForChat
    \/ GetNextPaper
    \/ GetRandomPaper

SpecPapers == InitPapers /\ [][NextPapers]_vars

\* C36: every chat with a non-empty paper list has its cursor inside the list
C36_IndexInsideList ==
    \A c \in DOMAIN chat_papers :
        chat_papers[c].papers # <<>> =>
            /\ 0 <= chat_papers[c].current_index
            /\ chat_papers[c].current_index < Len(chat_papers[c].papers)

\* a cursor has reached the last paper of a list of two or more papers
C36_Witness ==
    \E c \in DOMAIN chat_papers :
        /\ Len(chat_papers[c].papers) >= 2
        /\ chat_papers[c].current_index = Len(chat_papers[c].papers) - 1
        /\ last.op = "get_next_paper" /\ last.chat_id = c

\* what get_next_paper does to the list it finds: with papers the cursor
\* moves to the next place modulo the length and that paper and place are
\* returned, and a run of as many calls as there are papers ends on the
\* cursor it started from; without papers it returns (None, -1) and leaves
\* list and cursor as they were
NextPaperCycles ==
    (last.op = "get_next_paper") =>
        LET n == Len(last.pre.papers)
            chat == chat_papers[last.chat_id]
        IN  /\ last.raised = ""
            /\ chat.papers = last.pre.papers
            /\ IF n = 0
               THEN /\ last.index = None
                    /\ last.paper = None
                    /\ chat.current_index = last.pre.current_index
               ELSE /\ last.index = (last.pre.current_index + 1) % n
                    /\ last.paper = last.pre.papers[last.index + 1]
                    /\ chat.current_index = last.index
                    /\ last.streak = n => last.index = last.start

\* update_papers_for_chat stores the list it got and puts the cursor on the
\* first paper
UpdateResets ==
    (last.op = "update_papers_for_chat") =>
        /\ chat_papers[last.chat_id].papers = last.ret
        /\ chat_papers[last.chat_id].current_index = 0

\* C35 as stated: get_next_paper cycles through the list, and a call that
\* finds no papers changes no state at all
C35_Original ==
    /\ NextPaperCycles
    /\ UpdateResets
    /\ (last.op = "get_next_paper" /\ last.pre.papers = <<>>) => last.same

\* C35: get_next_paper cycles through the list of a chat: from place i of n
\* papers it moves to (i + 1) mod n and returns that paper and place, n calls
\* in a row come back to the paper they started from; with no papers it
\* returns (None, -1) and changes no list and no cursor, the only change
\* being the empty entry a chat without one is given;
\* update_papers_for_chat puts the cursor on 0
C35_NextPaperCycles ==
    /\ NextPaperCycles
    /\ UpdateResets
    /\ (last.op = "get_next_paper" /\ last.pre.papers = <<>>) =>
          /\ chat_papers[last.chat_id] = last.pre
          /\ last.same <=> last.known
          /\ ~last.known => chat_papers[last.chat_id] = ChatPapers

\* as many calls in a row as the list has papers, three or more, have
\* wrapped from the last paper to the first and are back where they started
C35_Witness ==
    /\ last.op = "get_next_paper"
    /\ Len(last.pre.papers) >= 3
    /\ last.streak = Len(last.pre.papers)
    /\ last.start # 0
    /\ last.index = last.start
    /\ last.paper = last.pre.papers[last.start + 1]

(***************************************************************************)
(* A card action while a workflow thread updates the list (SpecCard)       *)
(***************************************************************************)
\* The threads of "/daily_arxiv" run update_papers_for_chat while the event
\* handler runs get_next_paper. Nothing orders the two, so every read and
\* every write of the shared ChatPapers object is a step of its own; call
\* holds the locals of get_next_paper.

\* a workflow thread's get_daily_llm_papers, from its call to its return
ThreadFetches ==
    \E i \in {k \in 1..Len(threads) : threads[k].state = "started"}, win \in UpdateWindows :
        \E d \in daily_papers(db, now, get_chat_config(chat_config, threads[i].chat_id), win) :
            /\ d.now <= MaxClock
            /\ db' = d.db
            /\ now' = d.now
            /\ threads' = [threads EXCEPT ![i] = @ @@ [ret |-> d.ret],
                                          ![i].state = "returned"]
            /\ UNCHANGED <<fetchVars, papers, first_announced_date, last, chat_config,
                           chat_papers, call>>

\* chat_papers = self.get_chat_papers(chat_id); chat_papers.papers = papers
ThreadStoresPapers ==
    \E i \in 1..Len(threads) :
        /\ threads[i].state = "returned"
        /\ chat_papers' = [get_chat_papers(chat_papers, threads[i].chat_id)
                              EXCEPT ![threads[i].chat_id].papers = threads[i].ret]
        /\ threads' = [threads EXCEPT ![i].state = "papers_stored"]
        /\ UNCHANGED <<fetchVars, papers, first_announced_date, db, now, last,
                       chat_config, call>>

\* chat_papers.last_update = datetime.now()
ThreadStoresTime ==
    \E i \in 1..Len(threads) :
        /\ threads[i].state = "papers_stored"
        /\ chat_papers' = [chat_papers EXCEPT ![threads[i].chat_id].last_update = now]
        /\ threads' = [threads EXCEPT ![i].state = "time_stored"]
        /\ UNCHANGED <<fetchVars, papers, first_announced_date, db, now, last,
                       chat_config, call>>

\* chat_papers.current_index = 0
ThreadStoresIndex ==
    \E i \in 1..Len(threads) :
        /\ threads[i].state = "time_stored"
        /\ chat_papers' = [chat_papers EXCEPT ![threads[i].chat_id].current_index = 0]
        /\ threads' = [threads EXCEPT ![i] = [ThreadStarted(@.kind, @.chat_id)
                                                  EXCEPT !.state = "done"]]
        /\ UNCHANGED <<fetchVars, papers, first_announced_date, db, now, last,
                       chat_config, call>>

\* the card action "next_article": get_next_paper is entered, the list of
\* the chat is looked up and tested; without papers it returns (None, -1)
CardAction ==
    \E chat_id \in CardChats :
        /\ call.state \in {"none", "returned"}
        /\ chat_papers' = get_chat_papers(chat_papers, chat_id)
        /\ call' = IF chat_papers'[chat_id].papers = <<>>
                   THEN [state |-> "returned", chat_id |-> chat_id, index |-> None,
                         current |-> <<>>]
                   ELSE [state |-> "tested", chat_id |-> chat_id]
        /\ UNCHANGED <<fetchVars, papers, first_announced_date, db, now, last,
                       chat_config, threads>>

\* chat_papers.current_index + 1: the cursor is read
CardReadsIndex ==
    /\ call.state = "tested"
    /\ call' = [call EXCEPT !.state = "index_read"]
                  @@ [i |-> chat_papers[call.chat_id].current_index]
    /\ UNCHANGED <<fetchVars, papers, first_announced_date, db, now, last,
                   chat_config, chat_papers, threads>>

\* % len(chat_papers.papers): the list is read again; the length of an empty
\* list makes the division raise
CardReadsLen ==
    /\ call.state = "index_read"
    /\ \E n \in {Len(chat_papers[call.chat_id].papers)} :
          call' = IF n = 0
                  THEN [call EXCEPT !.state = "raised"] @@ [raised |-> "ZeroDivisionError"]
                  ELSE [call EXCEPT !.state = "len_read"] @@ [next |-> (call.i + 1) % n]
    /\ UNCHANGED <<fetchVars, papers, first_announced_date, db, now, last,
                   chat_config, chat_papers, threads>>

\* chat_papers.current_index = ...
CardStoresIndex ==
    /\ call.state = "len_read"
    /\ chat_papers' = [chat_papers EXCEPT ![call.chat_id].current_index = call.next]
    /\ call' = [call EXCEPT !.state = "index_stored"]
    /\ UNCHANGED <<fetchVars, papers, first_announced_date, db, now, last,
                   chat_config, threads>>

\* return chat_papers.papers[...]: the list is read a third time
CardReadsList ==
    /\ call.state = "index_stored"
    /\ call' = [call EXCEPT !.state = "list_read"]
                  @@ [list |-> chat_papers[call.chat_id].papers]
    /\ UNCHANGED <<fetchVars, papers, first_announced_date, db, now, last,
                   chat_config, chat_papers, threads>>

\* ...[chat_papers.current_index]: the cursor is read and the list indexed
CardSubscripts ==
    /\ call.state = "list_read"
    /\ \E j \in {chat_papers[call.chat_id].current_index} :
          call' = IF j >= Len(call.list)
                  THEN [call EXCEPT !.state = "raised"] @@ [raised |-> "IndexError"]
                  ELSE [call EXCEPT !.state = "subscripted"] @@ [paper |-> call.list[j + 1]]
    /\ UNCHANGED <<fetchVars, papers, first_announced_date, db, now, last,
                   chat_config, chat_papers, threads>>

\* ..., chat_papers.current_index: the cursor is read once more and the pair
\* is returned; current is the list of the chat at that moment
CardReturns ==
    /\ call.state = "subscripted"
    /\ call' = [state |-> "returned", chat_id |-> call.chat_id, paper |-> call.paper,
                index |-> chat_papers[call.chat_id].current_index,
                current |-> chat_papers[call.chat_id].papers]
    /\ UNCHANGED <<fetchVars, papers, first_announced_date, db, now, last,
                   chat_config, chat_papers, threads>>

InitCard ==
    /\ BotIdle
    /\ FetchIdle
    /\ papers = <<>>
    /\ first_announced_date = strptime_date(WorkflowDay)
    /\ db = PaperStore
    /\ now = 1
    /\ last = Idle

NextCard ==
    \/ DailyArxivCommandIn(CardChats)
    \/ ThreadFetches
    \/ ThreadStoresPapers
    \/ ThreadStoresTime
    \/ ThreadStoresIndex
    \/ CardAction
    \/ CardReadsIndex
    \/ CardReadsLen
    \/ CardStoresIndex
    \/ CardReadsList
    \/ CardSubscripts
    \/ CardReturns

SpecCard == InitCard /\ [][NextCard]_vars

\* C37: with update_papers_for_chat of another thread in between its steps,
\* get_next_paper never fails on its index and the paper it returns is one
\* of the list the chat has when it returns
C37_NextPaperInsideList ==
    /\ call.state # "raised"
    /\ (call.state = "returned" /\ call.index # None) =>
          \E k \in 1..Len(call.current) : call.current[k] = call.paper

====
